---- MODULE Spec2Model ----
(***************************************************************************)
(* yaml2pbip: the partition code generator.                                *)
(*                                                                         *)
(* Two implementations of the same generator live in the repository: the   *)
(* staged MCodePartitionBuilder (mcode/builder.py) and the monolithic      *)
(* generate_partition_mcode (emit.py).  Both are modelled here on the same *)
(* inputs (partition, table, source, transforms).                          *)
(*                                                                         *)
(* Text is modelled as a sequence of tokens.  A token is a maximal run of  *)
(* word characters (an identifier), a single punctuation character, a      *)
(* single white-space character, or a fixed fragment of generated code     *)
(* whose inner structure no operation of the program inspects.  A line of  *)
(* the builder's `lines` list is a token sequence; the generated           *)
(* expression is the lines joined by the token "\n".                       *)
(***************************************************************************)
EXTENDS Integers, Sequences, FiniteSets, TLC

(***************************************************************************)
(* Bounds of the model.                                                    *)
(***************************************************************************)
MaxSteps == 2
MaxCols == 2
MaxQueryLen == 2

(***************************************************************************)
(* Python values.                                                          *)
(***************************************************************************)
\* An Optional[str] field is modelled by a string, None by the empty string:
\* the program reads such a field only through its truthiness.
Truthy(x) == x # ""
\* A str the program builds is a token sequence; None is the empty sequence
\* (seed_var is None or a non-empty name).  f"{v}" prints None as "None".
NoneSeq == <<>>
fmt(v) == IF v = NoneSeq THEN <<"None">> ELSE v

(***************************************************************************)
(* str methods on token sequences.                                         *)
(***************************************************************************)
IsSpace(c) == c \in {" ", "\n", "\t"}

RECURSIVE lstrip(_)
lstrip(s) == IF s # <<>> /\ IsSpace(Head(s)) THEN lstrip(Tail(s)) ELSE s

RECURSIVE rstrip(_)
rstrip(s) == IF s # <<>> /\ IsSpace(s[Len(s)]) THEN rstrip(SubSeq(s, 1, Len(s) - 1)) ELSE s

strip(s) == lstrip(rstrip(s))

\* s.endswith(',')
endswith_comma(s) == s # <<>> /\ s[Len(s)] = ","

\* s.rstrip(',')
RECURSIVE rstrip_commas(_)
rstrip_commas(s) ==
    IF s # <<>> /\ s[Len(s)] = "," THEN rstrip_commas(SubSeq(s, 1, Len(s) - 1)) ELSE s

\* sep.join(parts)
RECURSIVE join(_, _)
join(sep, parts) ==
    IF parts = <<>> THEN <<>>
    ELSE IF Len(parts) = 1 THEN parts[1]
    ELSE parts[1] \o sep \o join(sep, Tail(parts))

\* s.replace('"', '\\"'): every double quote becomes backslash, double quote
RECURSIVE escape_quotes(_)
escape_quotes(s) ==
    IF s = <<>> THEN <<>>
    ELSE (IF Head(s) = "\"" THEN <<"\\", "\"">> ELSE <<Head(s)>>) \o escape_quotes(Tail(s))

\* f'"{x}"'
Quoted(x) == <<"\"", x, "\"">>

(***************************************************************************)
(* mcode/utils.py                                                          *)
(***************************************************************************)
\* As map_datatype_to_m, but with a type of its own for double
map_datatype_to_m_double(datatype) ==
    CASE datatype = "int64" -> "Int64.Type"
      [] datatype = "decimal" -> "Number.Type"
      [] datatype = "double" -> "Double.Type"
      [] datatype = "boolean" -> "Logical.Type"
      [] datatype = "string" -> "Text.Type"
      [] datatype = "date" -> "Date.Type"
      [] datatype = "dateTime" -> "DateTime.Type"
      [] datatype = "time" -> "Time.Type"
      [] datatype = "currency" -> "Currency.Type"
      [] datatype = "variant" -> "Any.Type"
      [] OTHER -> "Any.Type"

map_datatype_to_m(datatype) ==
    CASE datatype = "int64" -> "Int64.Type"
      [] datatype = "decimal" -> "Number.Type"
      [] datatype = "double" -> "Number.Type"
      [] datatype = "boolean" -> "Logical.Type"
      [] datatype = "string" -> "Text.Type"
      [] datatype = "date" -> "Date.Type"
      [] datatype = "dateTime" -> "DateTime.Type"
      [] datatype = "time" -> "Time.Type"
      [] datatype = "currency" -> "Currency.Type"
      [] datatype = "variant" -> "Any.Type"
      [] OTHER -> "Any.Type"

\* As format_column_list, but of the first column only
format_column_list_first(columns) ==
    IF columns = <<>> THEN <<>> ELSE Quoted(columns[1].name)

\* ", ".join(f'"{col[0]}"' for col in columns)
format_column_list(columns) ==
    join(<<",", " ">>, [i \in 1..Len(columns) |-> Quoted(columns[i].name)])

\* ", ".join(f'{{"{name}", {map_datatype_to_m(dtype)}}}' for name, dtype in columns)
format_types_list(columns) ==
    join(<<",", " ">>,
         [i \in 1..Len(columns) |->
             <<"{">> \o Quoted(columns[i].name)
                     \o <<",", " ", map_datatype_to_m(columns[i].dataType), "}">>])

ensure_trailing_comma(line) ==
    LET stripped == rstrip(line)
    IN IF ~endswith_comma(stripped) THEN stripped \o <<",">> ELSE line

\* As remove_trailing_comma, but the comma stays
keep_trailing_comma(line) == line

remove_trailing_comma(line) ==
    LET stripped == rstrip(line)
    IN IF endswith_comma(stripped) THEN SubSeq(stripped, 1, Len(stripped) - 1) ELSE line

(***************************************************************************)
(* Source templates.  The Jinja templates templates/sources/*.j2 are not   *)
(* part of the source tree at hand; their output is modelled from the      *)
(* specification (section 4.3) and from the docstrings of                  *)
(* source_resolver.py that quote it.                                       *)
(***************************************************************************)
\* emit.py: generate_partition_mcode._build_snowflake_call
_build_snowflake_call(src) ==
    LET opts == (IF Truthy(src.role) THEN << <<"Role = ">> \o Quoted(src.role) >> ELSE <<>>)
                \o (IF Truthy(src.queryTag)
                       THEN << <<"QueryTag = ">> \o Quoted(src.queryTag) >> ELSE <<>>)
        inner == join(<<",", " ">>, opts)
        head == <<"Snowflake", ".", "Databases", "(">> \o Quoted(src.server)
    IN IF Truthy(src.warehouse)
       THEN IF opts # <<>>
            THEN head \o <<",", " ">> \o Quoted(src.warehouse)
                      \o <<",", " ", "[">> \o inner \o <<"]", ")">>
            ELSE head \o <<",", " ">> \o Quoted(src.warehouse) \o <<")">>
       ELSE IF opts # <<>>
            THEN head \o <<",", " ", "[">> \o inner \o <<"]", ")">>
            ELSE head \o <<")">>

\* The base connection call of a source kind (spec 4.3)
ConnectionCall(src) ==
    IF src.kind = "snowflake" THEN _build_snowflake_call(src)
    ELSE <<"Excel", ".", "Workbook", "(", "File", ".", "Contents", "(">>
             \o Quoted(src.file_path) \o <<")", ",", " ", "null", ",", " ", "true", ")">>

\* templates/sources/<kind>.j2 rendered: a let block binding Source (and the
\* object the source stands for) and returning the last binding
StandardTemplate(src) ==
    LET ind == <<" ", " ", " ", " ">>
        second ==
            IF src.kind = "excel"
            THEN <<"Sheet", " ", "=", " ", "Source", "{[Item = ">>
                     \o Quoted(src.workbook_name) \o <<", Kind = \"Sheet\"]}[Data]">>
            ELSE <<"Database", " ", "=", " ", "Source", "{[Name = ">>
                     \o Quoted(src.database) \o <<", Kind = \"Database\"]}[Data]">>
        two == src.kind = "excel" \/ Truthy(src.database)
    IN <<"let", "\n">> \o ind \o <<"Source", " ", "=", " ">> \o ConnectionCall(src)
         \o (IF two THEN <<",", "\n">> \o ind \o second ELSE <<>>)
         \o <<"\n", "in", "\n">> \o ind
         \o (IF src.kind = "excel" THEN <<"Sheet">>
             ELSE IF two THEN <<"Database">> ELSE <<"Source">>)
         \o <<"\n">>

\* templates/sources/<kind>_inline.j2 exists for the warehouse-style kind
HasInlineTemplate(kind) == kind = "snowflake"
InlineTemplate(src) == ConnectionCall(src)

(***************************************************************************)
(* mcode/source_resolver.py                                                *)
(***************************************************************************)
\* text.split('\n')
RECURSIVE split_lines(_)
split_lines(text) ==
    LET cut == { i \in 1..Len(text) : text[i] = "\n" }
    IN IF cut = {} THEN <<text>>
       ELSE LET i == CHOOSE k \in cut : \A m \in cut : k <= m
            IN <<SubSeq(text, 1, i - 1)>> \o split_lines(SubSeq(text, i + 1, Len(text)))

\* The tokens of the model that begin with the letters "in"
InPrefixed == {"in", "index", "input"}
\* stripped.startswith('in')
startswith_in(stripped) == stripped # <<>> /\ Head(stripped) \in InPrefixed

\* stripped.startswith('Source =')
startswith_source_eq(stripped) ==
    Len(stripped) >= 3 /\ SubSeq(stripped, 1, 3) = <<"Source", " ", "=">>

_extract_inline_from_standard(mcode) ==
    LET lines == split_lines(strip(mcode))
        hits == { i \in 1..Len(lines) : startswith_source_eq(strip(lines[i])) }
    IN IF hits = {} THEN mcode
       ELSE LET i == CHOOSE k \in hits : \A m \in hits : k <= m
                call == strip(SubSeq(strip(lines[i]), 4, Len(strip(lines[i]))))
            IN IF endswith_comma(call) THEN SubSeq(call, 1, Len(call) - 1) ELSE call

generate_inline_source_mcode(src, inline) ==
    IF inline /\ HasInlineTemplate(src.kind) THEN strip(InlineTemplate(src))
    ELSE IF inline THEN _extract_inline_from_standard(StandardTemplate(src))
    ELSE StandardTemplate(src)

\* The loop of parse_source_mcode over the lines of the source's let block
RECURSIVE parse_source_loop(_, _, _, _)
parse_source_loop(lines, in_definitions, definitions, final_var) ==
    IF lines = <<>> THEN [definitions |-> definitions, final_var |-> final_var]
    ELSE LET line == Head(lines)
             stripped == strip(line)
             rest == Tail(lines)
         IN IF stripped = <<"let">>
            THEN parse_source_loop(rest, TRUE, definitions, final_var)
            ELSE IF startswith_in(stripped)
            THEN parse_source_loop(rest, FALSE, definitions, final_var)
            ELSE IF ~in_definitions /\ final_var = NoneSeq /\ stripped # <<>>
            THEN parse_source_loop(rest, in_definitions, definitions, stripped)
            ELSE IF in_definitions /\ stripped # <<>>
            THEN parse_source_loop(rest, in_definitions, Append(definitions, strip(line)), final_var)
            ELSE parse_source_loop(rest, in_definitions, definitions, final_var)

parse_source_mcode(mcode) ==
    LET r == parse_source_loop(split_lines(strip(mcode)), FALSE, <<>>, NoneSeq)
    IN [definitions |-> r.definitions,
        final_var |-> IF r.final_var = NoneSeq THEN <<"Source">> ELSE r.final_var]

\* f'  {name} = {rhs},'
Binding(name, rhs) == <<" ", " ", name, " ", "=", " ">> \o rhs \o <<",">>
\* f'{coll}{{[Name = "{name}", Kind = "{kind}"]}}[Data]'
Lookup(coll, name, kind) ==
    <<coll, "{[Name = ">> \o Quoted(name) \o <<", Kind = ">> \o Quoted(kind) \o <<"]}[Data]">>

\* As resolve_database_navigation, but the base connection alone is bound as DB
\* when the requested database is the source's default
resolve_database_navigation_default(src, database) ==
    IF ~Truthy(database) THEN <<>>
    ELSE IF database = src.database
    THEN << Binding("DB", generate_inline_source_mcode(src, TRUE)) >>
    ELSE << Binding("SourceColl", generate_inline_source_mcode(src, TRUE)),
            Binding("DB", Lookup("SourceColl", database, "Database")) >>

resolve_database_navigation(src, database) ==
    IF ~Truthy(database) THEN <<>>
    ELSE << Binding("SourceColl", generate_inline_source_mcode(src, TRUE)),
            Binding("DB", Lookup("SourceColl", database, "Database")) >>

(***************************************************************************)
(* The loaded transform mapping (name -> snippet text) and the regular     *)
(* expressions that take a snippet apart.                                  *)
(***************************************************************************)
\* Tokens that are not identifiers (\W, or not a single \w+ run)
NonWord ==
    {"", " ", "\n", "\t", "(", ")", ",", "=", "=>", "{", "}", "[", "]", "\"", "\\", ".",
     "'", "-", "//", "{{ input_var }}"}
IsWord(tok) == tok \notin NonWord

Tok(s, i) == IF i >= 1 /\ i <= Len(s) THEN s[i] ELSE ""

\* The first index >= i of s that holds no white space (\s*)
RECURSIVE SkipWs(_, _)
SkipWs(s, i) == IF i <= Len(s) /\ IsSpace(s[i]) THEN SkipWs(s, i + 1) ELSE i

\* \s+ from i: the index after it, or 0
SomeWs(s, i) == IF i >= 1 /\ IsSpace(Tok(s, i)) THEN SkipWs(s, i) ELSE 0

\* a literal token at i: the index after it, or 0
Lit(s, i, tok) == IF i >= 1 /\ Tok(s, i) = tok THEN i + 1 ELSE 0

\* \w+ at i: the index after it, or 0
Word(s, i) == IF i >= 1 /\ IsWord(Tok(s, i)) THEN i + 1 ELSE 0

\* ''.join(tokens)
RECURSIVE Concat(_)
Concat(toks) == IF toks = <<>> THEN "" ELSE Head(toks) \o Concat(Tail(toks))

SigF == <<"(", "t", " ", "as", " ", "table", ")", " ", "as", " ", "table", " ", "=>", " ">>
SigTbl == <<"(", "tbl", " ", "as", " ", "table", ")", " ", "as", " ", "table", " ", "=>", " ">>
SigTable == <<"(", "Table", " ", "as", " ", "table", ")", " ", "as", " ", "table", " ", "=>", " ">>
SigSrc == <<"(", "src", " ", "as", " ", "table", ")", " ", "as", " ", "table", " ", "=>", "\n">>

\* name -> text, as load_transforms returns it
Transforms ==
    [ f |-> SigF \o <<"Table", ".", "Distinct", "(", "t", ")">>,
      g |-> SigSrc \o <<"let", "\n",
                        " ", " ", "Kept", " ", "=", " ", "Table", ".", "Distinct", "(", "src", ")", ",", "\n",
                        " ", " ", "Out", " ", "=", " ", "Table", ".", "Buffer", "(", "Kept", ")", "\n",
                        "in", "\n",
                        " ", " ", "Out">>,
      h |-> SigTbl \o <<"Table", ".", "Buffer", "(", "tbl", ")">>,
      j |-> SigF \o <<"Table", ".", "FirstN", "(", "{{ input_var }}", ",", " ", "10", ")">>,
      k |-> SigTable \o <<"Table", ".", "Distinct", "(", "Table", ")">> ]

TransformNames == DOMAIN Transforms

\* Jinja2 rendering of a snippet: {{ input_var }} is replaced by the context's
\* input_var (the snippets of the model use no other template syntax)
RECURSIVE render_transform_template(_, _)
render_transform_template(text, input_var) ==
    IF text = <<>> THEN <<>>
    ELSE (IF Head(text) = "{{ input_var }}" THEN fmt(input_var) ELSE <<Head(text)>>)
         \o render_transform_template(Tail(text), input_var)

(***************************************************************************)
(* mcode/builder.py: MCodePartitionBuilder.  A builder is the record       *)
(* [lines, seed_var, error]; error is the message of the exception a stage *)
(* raised (the empty sequence when none was raised).                       *)
(***************************************************************************)
NoError == <<>>
Raise(b, msg) == [b EXCEPT !.error = msg]

\* MCodePartitionBuilder.__init__
NewBuilder == [lines |-> << <<"let">> >>, seed_var |-> NoneSeq, error |-> NoError]

_add_database_navigation(b, p, src) ==
    LET nav == p.navigation
        database == IF nav.present /\ Truthy(nav.database) THEN nav.database
                    ELSE IF Truthy(src.database) THEN src.database
                    ELSE ""
    IN IF ~(nav.present /\ Truthy(nav.database)) /\ ~Truthy(src.database)
          /\ p.nativeQuery # NoneSeq
       THEN Raise(b, <<"Cannot run nativeQuery for partition '", p.name, "': source '", src.key,
                       "' has no database and partition has no navigation.database">>)
       ELSE IF Truthy(database)
       THEN [b EXCEPT !.lines = @ \o resolve_database_navigation(src, database)]
       ELSE b

_embed_simple_source(b, src) ==
    LET parsed == parse_source_mcode(generate_inline_source_mcode(src, FALSE))
        defs == parsed.definitions
        added == [i \in 1..Len(defs) |->
                     <<" ", " ">> \o (IF ~endswith_comma(defs[i]) THEN defs[i] \o <<",">>
                                      ELSE defs[i])]
    IN [b EXCEPT !.lines = @ \o added, !.seed_var = parsed.final_var]

add_source_connection(b, p, src) ==
    IF p.navigation.present \/ p.nativeQuery # NoneSeq
    THEN _add_database_navigation(b, p, src)
    ELSE _embed_simple_source(b, src)

\* As add_navigation, but the table is looked up in the database scope
add_navigation_in_database(b, p) ==
    IF ~p.navigation.present THEN b
    ELSE [b EXCEPT !.lines = @ \o << Binding("SCH", Lookup("DB", p.navigation.schema_, "Schema")),
                                     Binding("TBL", Lookup("DB", p.navigation.table, "Table")) >>,
                   !.seed_var = <<"TBL">>]

add_navigation(b, p) ==
    IF ~p.navigation.present THEN b
    ELSE [b EXCEPT !.lines = @ \o << Binding("SCH", Lookup("DB", p.navigation.schema_, "Schema")),
                                     Binding("TBL", Lookup("SCH", p.navigation.table, "Table")) >>,
                   !.seed_var = <<"TBL">>]

\* f'Value.NativeQuery(DB, "{sql}", null, [EnableFolding = true])'
NativeQueryCall(sql) ==
    <<"Value", ".", "NativeQuery", "(", "DB", ",", " ", "\"">> \o sql
        \o <<"\"", ",", " ", "null", ",", " ", "[EnableFolding = true]", ")">>

add_native_query(b, p) ==
    IF p.nativeQuery = NoneSeq THEN b
    ELSE LET sql == escape_quotes(strip(p.nativeQuery))
         IN [b EXCEPT !.lines = Append(@, Binding("Result", NativeQueryCall(sql))),
                      !.seed_var = <<"Result">>]

\* The lines with a comma ensured at the end of the last one
EnsureLastComma(lines) ==
    IF lines # <<>> /\ ~endswith_comma(strip(lines[Len(lines)]))
    THEN [lines EXCEPT ![Len(lines)] = ensure_trailing_comma(@)]
    ELSE lines

\* f'Table.SelectColumns({seed}, {{{col_names}}}, MissingField.UseNull)'
SelectColumnsCall(seed, cols) ==
    <<"Table", ".", "SelectColumns", "(">> \o fmt(seed) \o <<",", " ", "{">>
        \o format_column_list(cols) \o <<"}", ",", " ", "MissingField", ".", "UseNull", ")">>

\* f'Table.TransformColumnTypes({seed}, {{{types_list}}})'
TransformColumnTypesCall(seed, cols) ==
    <<"Table", ".", "TransformColumnTypes", "(">> \o fmt(seed) \o <<",", " ", "{">>
        \o format_types_list(cols) \o <<"}", ")">>

add_column_selection(b, t) ==
    IF t.column_policy = "select_only" /\ t.columns # <<>>
    THEN [b EXCEPT !.lines = Append(EnsureLastComma(@),
                                    Binding("Selected", SelectColumnsCall(b.seed_var, t.columns))),
                   !.seed_var = <<"Selected">>]
    ELSE b

add_type_transformation(b, t) ==
    IF t.columns = <<>> THEN b
    ELSE [b EXCEPT !.lines = Append(EnsureLastComma(@),
                                    Binding("Typed", TransformColumnTypesCall(b.seed_var, t.columns))),
                   !.seed_var = <<"Typed">>]

\* re.match(r'^([A-Za-z0-9_]+)\s*\((.*)\)\s*$', step): the step is a call "name(...)"
IsCallStep(step) ==
    LET r == rstrip(step)
        open == SkipWs(r, 2)
    IN /\ Word(r, 1) # 0
       /\ Tok(r, open) = "("
       /\ Len(r) > open
       /\ r[Len(r)] = ")"

\* The name of a custom_steps entry, as normalized_steps holds it (its tokens)
StepName(step) == IF IsCallStep(step) THEN <<step[1]>> ELSE step

\* repr of a list of str
ListRepr(names) ==
    <<"[">> \o join(<<",", " ">>, [i \in 1..Len(names) |-> <<"'", names[i], "'">>]) \o <<"]">>

\* As MissingOf, but the first missing name only
MissingFirst(names) ==
    LET at == { i \in 1..Len(names) : names[i] \notin TransformNames }
    IN IF at = {} THEN <<>> ELSE << names[CHOOSE i \in at : \A k \in at : i <= k] >>

\* [x for x in names if x not in transforms_dict]
RECURSIVE MissingOf(_)
MissingOf(names) ==
    IF names = <<>> THEN <<>>
    ELSE (IF Head(names) \notin TransformNames THEN <<Head(names)>> ELSE <<>>)
         \o MissingOf(Tail(names))

UnknownTransforms(p, t, missing) ==
    <<"Partition '", p.name, "' in table '", t.name, "' references unknown transforms: ">>
        \o ListRepr(missing)

\* r'\(\s*\w+\s+as\s+table\s*\)\s+as\s+table\s*(?:=>)?\s*(.*)' matched at i:
\* the index where group 1 starts, or 0
TableSigAt(s, i) ==
    LET a == Lit(s, i, "(")
        b == IF a = 0 THEN 0 ELSE Word(s, SkipWs(s, a))
        c == Lit(s, SomeWs(s, b), "as")
        d == Lit(s, SomeWs(s, c), "table")
        e == IF d = 0 THEN 0 ELSE Lit(s, SkipWs(s, d), ")")
        g == Lit(s, SomeWs(s, e), "as")
        h == Lit(s, SomeWs(s, g), "table")
        k == IF h = 0 THEN 0 ELSE SkipWs(s, h)
    IN IF k = 0 THEN 0 ELSE IF Tok(s, k) = "=>" THEN SkipWs(s, k + 1) ELSE k

\* re.search(...): body = match.group(1).strip() if match else transform_code
BuilderBody(code) ==
    LET hits == { i \in 1..Len(code) : TableSigAt(code, i) # 0 }
    IN IF hits = {} THEN code
       ELSE LET i == CHOOSE k \in hits : \A m \in hits : k <= m
            IN strip(SubSeq(code, TableSigAt(code, i), Len(code)))

\* re.sub(r"[^A-Za-z0-9_]", "_", step_name)
RECURSIVE Sanitize(_)
Sanitize(name) ==
    IF name = <<>> THEN ""
    ELSE (IF IsWord(Head(name)) THEN Head(name) ELSE "_") \o Sanitize(Tail(name))

\* f"__{safe_step}_{idx}"
VarName(safe_step, idx) == "__" \o safe_step \o "_" \o ToString(idx)

\* The body re-indented: every non-empty line stripped and indented by four
ReindentBody(body) ==
    LET ls == split_lines(body)
    IN join(<<"\n">>, [i \in 1..Len(ls) |->
                          IF strip(ls[i]) # <<>> THEN <<" ", " ", " ", " ">> \o strip(ls[i])
                          ELSE <<>>])

\* The loop "for idx, step in enumerate(normalized_steps, start=1)"
RECURSIVE ApplyTransforms(_, _, _, _)
ApplyTransforms(names, idx, lines, curr_var) ==
    IF idx > Len(names) THEN [lines |-> lines, curr_var |-> curr_var]
    ELSE LET transform_code ==
                 render_transform_template(strip(Transforms[Concat(names[idx])]), curr_var)
             body == BuilderBody(transform_code)
             var_name == VarName(Sanitize(names[idx]), idx)
             is_last == idx = Len(names)
             prev == IF idx > 1 THEN EnsureLastComma(lines) ELSE lines
             entry == <<" ", " ", var_name, " ", "=", "\n">> \o ReindentBody(body)
                          \o (IF is_last THEN <<>> ELSE <<",">>)
         IN ApplyTransforms(names, idx + 1, Append(prev, entry), <<var_name>>)

\* As add_custom_transforms, but a name is looked up when its step is
\* reached: the steps before the first unknown name are applied
add_custom_transforms_stepwise(b, p, t) ==
    IF p.custom_steps = <<>> THEN b
    ELSE LET normalized_steps == [i \in 1..Len(p.custom_steps) |-> StepName(p.custom_steps[i])]
             names == [i \in 1..Len(normalized_steps) |-> Concat(normalized_steps[i])]
             Applied(known, missing) ==
                 [lines |-> ApplyTransforms(known, 1, b.lines, b.seed_var).lines,
                  seed_var |-> ApplyTransforms(known, 1, b.lines, b.seed_var).curr_var,
                  error |-> IF missing = <<>> THEN b.error ELSE UnknownTransforms(p, t, missing)]
             Stops == { i \in 1..Len(names) : names[i] \notin TransformNames } \cup {Len(names) + 1}
         IN Applied(SubSeq(normalized_steps, 1,
                           (CHOOSE i \in Stops : \A k \in Stops : i <= k) - 1),
                    MissingFirst(names))

add_custom_transforms(b, p, t) ==
    IF p.custom_steps = <<>> THEN b
    ELSE LET normalized_steps == [i \in 1..Len(p.custom_steps) |-> StepName(p.custom_steps[i])]
             missing == MissingOf([i \in 1..Len(normalized_steps) |-> Concat(normalized_steps[i])])
         IN IF missing # <<>> THEN Raise(b, UnknownTransforms(p, t, missing))
            ELSE LET r == ApplyTransforms(normalized_steps, 1, b.lines, b.seed_var)
                 IN [b EXCEPT !.lines = r.lines, !.seed_var = r.curr_var]

\* As build, but without the check of the seed
build_unchecked(b, p) ==
    LET last == b.lines[Len(b.lines)]
        trimmed == IF b.lines # <<>> /\ endswith_comma(strip(last))
                   THEN [b.lines EXCEPT ![Len(b.lines)] = remove_trailing_comma(@)]
                   ELSE b.lines
    IN [b EXCEPT !.lines = trimmed \o << <<"in">>, <<" ", " ">> \o fmt(b.seed_var) >>]

build(b, p) ==
    IF b.seed_var = NoneSeq
    THEN Raise(b, <<"No data source configured for partition ", p.name>>)
    ELSE LET last == b.lines[Len(b.lines)]
             trimmed == IF b.lines # <<>> /\ endswith_comma(strip(last))
                        THEN [b.lines EXCEPT ![Len(b.lines)] = remove_trailing_comma(@)]
                        ELSE b.lines
         IN [b EXCEPT !.lines = trimmed \o << <<"in">>, <<" ", " ">> \o b.seed_var >>]

(***************************************************************************)
(* emit.py: generate_partition_mcode and its local functions.              *)
(***************************************************************************)
\* re.match(r'\s*\(\s*(\w+)\s+as\s+', transform_code)
_extract_param_name(code) ==
    LET a == Lit(code, SkipWs(code, 1), "(")
        w == IF a = 0 THEN 0 ELSE SkipWs(code, a)
        b == Word(code, w)
        c == Lit(code, SomeWs(code, b), "as")
    IN IF SomeWs(code, c) # 0 THEN code[w] ELSE "t"

\* rf'\(\s*{param_name}\s+as\s+[^)]+\)\s+as\s+\w+\s*(?:=>)?\s*(.*)' matched at i:
\* the index where group 1 starts, or 0
ParamSigAt(s, i, param_name) ==
    LET a == Lit(s, i, "(")
        b == IF a = 0 THEN 0 ELSE Lit(s, SkipWs(s, a), param_name)
        c == Lit(s, SomeWs(s, b), "as")
        \* \s+[^)]+\) : white space, then anything up to the first ")", two
        \* characters at least
        closing == { k \in 1..Len(s) : k > c /\ s[k] = ")" }
        d == IF c = 0 \/ ~IsSpace(Tok(s, c)) \/ closing = {} THEN 0
             ELSE LET k == CHOOSE x \in closing : \A y \in closing : x <= y
                  IN IF k >= c + 2 THEN k + 1 ELSE 0
        e == Lit(s, SomeWs(s, d), "as")
        g == Word(s, SomeWs(s, e))
        h == IF g = 0 THEN 0 ELSE SkipWs(s, g)
    IN IF h = 0 THEN 0 ELSE IF Tok(s, h) = "=>" THEN SkipWs(s, h + 1) ELSE h

Min(S) == CHOOSE x \in S : \A y \in S : x <= y
Max(S) == CHOOSE x \in S : \A y \in S : x >= y

\* s[a:b] for 1-based a and exclusive b
Slice(s, a, b) == IF a < b THEN SubSeq(s, a, b - 1) ELSE <<>>

\* The start of the white-space run that ends just before index i
RECURSIVE WsRunStart(_, _)
WsRunStart(s, i) == IF i > 1 /\ IsSpace(s[i - 1]) THEN WsRunStart(s, i - 1) ELSE i

\* r'\n\s*\bin\b' ending at the token "in" at index i: the index of the
\* newline where the match starts, or 0
NewlineInAt(s, i) ==
    LET nl == { k \in WsRunStart(s, i)..(i - 1) : s[k] = "\n" }
    IN IF s[i] = "in" /\ nl # {} THEN Min(nl) ELSE 0

\* stripped.count('(') + stripped.count('{') + stripped.count('[')
\*   - (stripped.count(')') + stripped.count('}') + stripped.count(']'))
RECURSIVE NestingDelta(_)
NestingDelta(s) ==
    IF s = <<>> THEN 0
    ELSE (IF Head(s) \in {"(", "{", "["} THEN 1
          ELSE IF Head(s) \in {")", "}", "]"} THEN -1 ELSE 0) + NestingDelta(Tail(s))

\* '=' in stripped
HasEquals(s) == \E i \in 1..Len(s) : s[i] \in {"=", "=>"}

\* The loop of _extract_transform_body over the lines between let and in
RECURSIVE ParseDefs(_, _, _, _, _)
ParseDefs(ls, variable_defs, current_def, in_definition, nesting_level) ==
    IF ls = <<>>
    THEN IF current_def # <<>> THEN Append(variable_defs, join(<<"\n">>, current_def))
         ELSE variable_defs
    ELSE LET line == Head(ls)
             stripped == strip(line)
             rest == Tail(ls)
         IN IF stripped = <<>>
            THEN ParseDefs(rest, variable_defs, current_def, in_definition, nesting_level)
            ELSE IF Head(stripped) = "//"
            THEN ParseDefs(rest, variable_defs,
                           IF in_definition THEN Append(current_def, line) ELSE current_def,
                           in_definition, nesting_level)
            ELSE LET taken == (HasEquals(stripped) /\ ~in_definition) \/ in_definition
                     def1 == IF taken THEN Append(current_def, line) ELSE current_def
                     lvl1 == IF taken THEN nesting_level + NestingDelta(stripped)
                             ELSE nesting_level
                 IN IF taken /\ lvl1 = 0 /\ endswith_comma(stripped)
                    THEN ParseDefs(rest, Append(variable_defs, join(<<"\n">>, def1)), <<>>,
                                   FALSE, lvl1)
                    ELSE ParseDefs(rest, variable_defs, def1, taken, lvl1)

\* (variable_defs, final_section)
_extract_transform_body(code, param_name) ==
    LET \* the body cut at the let keyword and at the in keyword at index last,
        \* whose match starts at in_start
        Cut(body, lets, last, in_start) ==
            [defs |-> ParseDefs(split_lines(strip(Slice(body, Min(lets) + 1, in_start))),
                                <<>>, <<>>, FALSE, 0),
             final |-> strip(SubSeq(body, last + 1, Len(body)))]
        \* lets: body.find('let'); ins1: the matches of r'\n\s*\bin\b';
        \* ins2: body.rfind('in')
        Located(body, lets, ins1, ins2) ==
            IF lets = {} \/ ins2 = {} THEN [defs |-> <<>>, final |-> body]
            ELSE IF ins1 # {} THEN Cut(body, lets, Max(ins1), NewlineInAt(body, Max(ins1)))
            ELSE Cut(body, lets, Max(ins2), Max(ins2))
        Body(body) ==
            Located(body, { i \in 1..Len(body) : body[i] = "let" },
                    { i \in 1..Len(body) : NewlineInAt(body, i) # 0 },
                    { i \in 1..Len(body) : body[i] = "in" })
        Matched(hits) ==
            IF hits = {} THEN [defs |-> <<>>, final |-> code]
            ELSE Body(strip(SubSeq(code, ParamSigAt(code, Min(hits), param_name), Len(code))))
    IN Matched({ i \in 1..Len(code) : ParamSigAt(code, i, param_name) # 0 })

\* re.sub(rf'\b{re.escape(param_name)}\b', replacement, body)
RECURSIVE _replace_param_in_body(_, _, _)
_replace_param_in_body(body, param_name, replacement) ==
    IF body = <<>> THEN <<>>
    ELSE (IF Head(body) = param_name THEN replacement ELSE <<Head(body)>>)
         \o _replace_param_in_body(Tail(body), param_name, replacement)

\* The number of blanks a line starts with
RECURSIVE Indent(_)
Indent(line) == IF line # <<>> /\ Head(line) = " " THEN 1 + Indent(Tail(line)) ELSE 0

\* textwrap.dedent on the lines of a text: the margin common to the lines that
\* are not blank is removed, blank lines are emptied
dedent(ls) ==
    LET full == { i \in 1..Len(ls) : strip(ls[i]) # <<>> }
        margin == IF full = {} THEN 0 ELSE Min({ Indent(ls[i]) : i \in full })
    IN [i \in 1..Len(ls) |->
           IF i \in full THEN SubSeq(ls[i], margin + 1, Len(ls[i])) ELSE <<>>]

\* One definition of a let body, re-indented and without its trailing comma
Reindented(injected_def) ==
    LET ls == dedent(split_lines(injected_def))
        re == [i \in 1..Len(ls) |->
                  IF i = 1 THEN <<" ", " ">> \o ls[i] ELSE <<" ", " ", " ", " ">> \o ls[i]]
    IN rstrip_commas(rstrip(join(<<"\n">>, re)))

\* re.match(r'\s*(\w+)\s*=', injected_def): the name, or the empty sequence
DefName(injected_def) ==
    LET w == SkipWs(injected_def, 1)
        a == Word(injected_def, w)
    IN IF a # 0 /\ Tok(injected_def, SkipWs(injected_def, a)) \in {"=", "=>"}
       THEN <<injected_def[w]>> ELSE NoneSeq

\* lines[-1] = lines[-1] + ',' unless the last line ends with a comma
AppendLastComma(lines) ==
    IF ~endswith_comma(strip(lines[Len(lines)]))
    THEN [lines EXCEPT ![Len(lines)] = @ \o <<",">>]
    ELSE lines

\* The loop over the definitions of one let body
RECURSIVE InjectDefs(_, _, _, _, _, _)
InjectDefs(var_defs, def_idx, param_name, is_last_transform, lines, curr_var) ==
    IF def_idx > Len(var_defs) THEN [lines |-> lines, curr_var |-> curr_var]
    ELSE LET is_last_def == def_idx = Len(var_defs)
             \* the parameter is replaced by the variable the step started from
             \* in every definition: curr_var changes after the last one only
             Inject(injected_def, line, name) ==
                 IF is_last_def
                 THEN [lines |-> Append(lines, line),
                       curr_var |-> IF name # NoneSeq THEN name ELSE curr_var]
                 ELSE InjectDefs(var_defs, def_idx + 1, param_name, is_last_transform,
                                 Append(lines, line), curr_var)
             Injected(injected_def) ==
                 Inject(injected_def,
                        IF is_last_def /\ is_last_transform THEN injected_def
                        ELSE injected_def \o <<",">>,
                        DefName(injected_def))
         IN Injected(Reindented(_replace_param_in_body(var_defs[def_idx], param_name, curr_var)))

\* The loop "for idx, step_name in enumerate(partition.custom_steps, start=1)"
RECURSIVE EmitSteps(_, _, _, _)
EmitSteps(steps, idx, lines, curr_var) ==
    IF idx > Len(steps) THEN [lines |-> lines, curr_var |-> curr_var]
    ELSE LET step_name == Concat(steps[idx])
             var_name == "__" \o step_name \o "_" \o ToString(idx)
             is_last == idx = Len(steps)
             Continue(r) == EmitSteps(steps, idx + 1, r.lines, r.curr_var)
             Emit(param_name, parsed, prev) ==
                 IF parsed.defs = <<>>
                 THEN Continue([lines |->
                                    Append(prev,
                                           <<" ", " ", var_name, " ", "=", " ">>
                                               \o _replace_param_in_body(parsed.final, param_name,
                                                                         curr_var)
                                               \o (IF is_last THEN <<>> ELSE <<",">>)),
                                curr_var |-> <<var_name>>])
                 ELSE Continue(InjectDefs(parsed.defs, 1, param_name, is_last, prev, curr_var))
             Parsed(transform_code, param_name) ==
                 Emit(param_name, _extract_transform_body(transform_code, param_name),
                      AppendLastComma(lines))
             Code(transform_code) == Parsed(transform_code, _extract_param_name(transform_code))
         IN Code(strip(Transforms[step_name]))

_emit_sequential_steps(p, lines, seed) ==
    IF p.custom_steps = <<>> THEN [lines |-> lines, curr_var |-> seed]
    ELSE EmitSteps(p.custom_steps, 1, lines, seed)

\* The lines that bind DB, or the error raised
_resolve_db(src, p, nav, require_nav_db) ==
    IF nav.present /\ Truthy(nav.database)
    THEN [error |-> NoError,
          db_lines |-> << Binding("SourceColl", _build_snowflake_call(src)),
                          Binding("DB", Lookup("SourceColl", nav.database, "Database")) >>]
    ELSE IF Truthy(src.database)
    THEN [error |-> NoError,
          db_lines |-> << Binding("SourceColl", _build_snowflake_call(src)),
                          Binding("DB", Lookup("SourceColl", src.database, "Database")) >>]
    ELSE IF require_nav_db
    THEN [error |-> <<"Source '", src.key, "' does not define a database; partition '", p.name,
                      "' must specify navigation.database">>,
          db_lines |-> <<>>]
    ELSE [error |-> NoError, db_lines |-> <<>>]

\* emit.py: the table of _map_datatype_to_m
_map_datatype_to_m(datatype) ==
    CASE datatype = "int64" -> "Int64.Type"
      [] datatype = "decimal" -> "Number.Type"
      [] datatype = "double" -> "Number.Type"
      [] datatype = "boolean" -> "Logical.Type"
      [] datatype = "string" -> "Text.Type"
      [] datatype = "date" -> "Date.Type"
      [] datatype = "dateTime" -> "DateTime.Type"
      [] datatype = "time" -> "Time.Type"
      [] datatype = "currency" -> "Currency.Type"
      [] datatype = "variant" -> "Any.Type"
      [] OTHER -> "Any.Type"

\* f'Table.TransformColumnTypes({seed_var}, {{{types_list}}})' with
\* types_list = ", ".join(f'{{"{n}", {_map_datatype_to_m(t)}}}' for n, t in declared_cols)
EmitTypedCall(seed, declared_cols) ==
    <<"Table", ".", "TransformColumnTypes", "(">> \o seed \o <<",", " ", "{">>
        \o join(<<",", " ">>,
                [i \in 1..Len(declared_cols) |->
                    <<"{">> \o Quoted(declared_cols[i].name)
                            \o <<",", " ", _map_datatype_to_m(declared_cols[i].dataType), "}">>])
        \o <<"}", ")">>

\* templates/sources/<kind>.j2 rendered by emit.generate_source_mcode
generate_source_mcode(src) == StandardTemplate(src)

\* The tail every branch of generate_partition_mcode shares: column selection,
\* type coercion, the transform steps and the in clause
EmitTail(p, t, lines, seed, select_from) ==
    LET selects == t.column_policy = "select_only" /\ t.columns # <<>>
        \* the trailing comma goes when there are no steps; then the in clause
        Closed(r) ==
            [error |-> NoError,
             lines |-> (IF p.custom_steps = <<>> /\ endswith_comma(strip(r.lines[Len(r.lines)]))
                        THEN [r.lines EXCEPT ![Len(r.lines)] = rstrip_commas(@)]
                        ELSE r.lines)
                       \o << <<"in">>, <<" ", " ">> \o r.curr_var >>]
        Typed(l1, s1) ==
            Closed(_emit_sequential_steps(
                       p,
                       IF t.columns # <<>>
                       THEN Append(AppendLastComma(l1),
                                   Binding("Typed", EmitTypedCall(s1, t.columns)))
                       ELSE l1,
                       IF t.columns # <<>> THEN <<"Typed">> ELSE s1))
    IN Typed(IF selects
             THEN Append(lines, Binding("Selected", SelectColumnsCall(select_from, t.columns)))
             ELSE lines,
             IF selects THEN <<"Selected">> ELSE seed)

\* line.strip().startswith('DB =')
startswith_db_eq(line) ==
    LET l == strip(line) IN Len(l) >= 3 /\ SubSeq(l, 1, 3) = <<"DB", " ", "=">>

generate_partition_mcode(p, t, src) ==
    LET raw_names == [i \in 1..Len(p.custom_steps) |-> Concat(p.custom_steps[i])]
        missing == MissingOf(raw_names)
        start == << <<"let">> >>
    IN IF p.custom_steps # <<>> /\ missing # <<>>
       THEN [error |-> UnknownTransforms(p, t, missing), lines |-> start]
       ELSE IF p.navigation.present
       THEN LET db == _resolve_db(src, p, p.navigation, TRUE)
                nav == p.navigation
                ls == start \o db.db_lines
                        \o << Binding("SCH", Lookup("DB", nav.schema_, "Schema")),
                              Binding("TBL", Lookup("SCH", nav.table, "Table")) >>
            IN IF db.error # NoError THEN [error |-> db.error, lines |-> start]
               ELSE EmitTail(p, t, ls, <<"TBL">>, <<"TBL">>)
       ELSE IF p.nativeQuery # NoneSeq
       THEN LET sql == escape_quotes(strip(p.nativeQuery))
                db == _resolve_db(src, p, p.navigation, FALSE)
                ls == start \o db.db_lines
            IN IF ~\E i \in 1..Len(ls) : startswith_db_eq(ls[i])
               THEN [error |-> <<"Cannot run nativeQuery for partition '", p.name, "': source '",
                                 src.key,
                                 "' has no database and partition has no navigation.database">>,
                     lines |-> ls]
               ELSE EmitTail(p, t, Append(ls, Binding("Result", NativeQueryCall(sql))),
                             <<"Result">>, <<"Result">>)
       ELSE LET Seeded(added, seed) == EmitTail(p, t, start \o added, seed, seed)
                Embedded(defs, final_var) ==
                    Seeded([i \in 1..Len(defs) |->
                               IF ~endswith_comma(defs[i]) THEN <<" ", " ">> \o defs[i] \o <<",">>
                               ELSE <<" ", " ">> \o defs[i]],
                           IF final_var # NoneSeq THEN final_var ELSE <<"Sheet">>)
                Parsed(parsed) == Embedded(parsed.definitions, parsed.final_var)
            IN Parsed(parse_source_loop(split_lines(strip(generate_source_mcode(src))),
                                        FALSE, <<>>, NoneSeq))

(***************************************************************************)
(* Inputs: sources, tables and partitions, as the validated spec model     *)
(* (spec.py) hands them to the generator.                                  *)
(***************************************************************************)
SfPlain ==
    [key |-> "sf_main", kind |-> "snowflake", server |-> "xy.snowflakecomputing.com",
     warehouse |-> "", database |-> "", role |-> "", queryTag |-> "",
     file_path |-> "", workbook_name |-> ""]
SfSales == [SfPlain EXCEPT !.key = "sf_sales", !.warehouse = "COMPUTE_WH", !.database = "SALES",
                           !.role = "ANALYST", !.queryTag = "yaml2pbip"]
SfWh == [SfPlain EXCEPT !.key = "sf_wh", !.warehouse = "COMPUTE_WH", !.database = "SALES"]
SfRole == [SfPlain EXCEPT !.key = "sf_role", !.role = "ANALYST"]
Excel ==
    [key |-> "xl", kind |-> "excel", server |-> "", warehouse |-> "", database |-> "",
     role |-> "", queryTag |-> "", file_path |-> "book.xlsx", workbook_name |-> "Sheet1"]

\* Partition.navigation is None
NoNav == [present |-> FALSE, database |-> "", schema_ |-> "", table |-> ""]
Nav(database) == [present |-> TRUE, database |-> database, schema_ |-> "DIM", table |-> "DATE"]
Navigations == {NoNav, Nav(""), Nav("SALES"), Nav("HR")}

\* The declared data types (spec.py: DataType) and one the table does not hold
ColPool ==
    << [name |-> "Date", dataType |-> "date"], [name |-> "Year", dataType |-> "int64"],
       [name |-> "Amount", dataType |-> "decimal"], [name |-> "Ratio", dataType |-> "double"],
       [name |-> "Flag", dataType |-> "boolean"], [name |-> "Name", dataType |-> "string"],
       [name |-> "Stamp", dataType |-> "dateTime"], [name |-> "Tick", dataType |-> "time"],
       [name |-> "Price", dataType |-> "currency"], [name |-> "Blob", dataType |-> "variant"],
       [name |-> "Geo", dataType |-> "geography"] >>

\* n columns of the pool from the k-th on, wrapping around
Window(k, n) == [i \in 1..n |-> ColPool[((k + i - 2) % Len(ColPool)) + 1]]
PrefixColumns == { Window(1, n) : n \in 0..MaxCols }
WindowColumns == { Window(k, n) : k \in 1..Len(ColPool), n \in 0..MaxCols }

Policies == {"select_only", "keep_all", "hide_extras"}

\* All sequences over S of length at most n
RECURSIVE SeqsUpTo(_, _)
SeqsUpTo(S, n) ==
    IF n = 0 THEN { <<>> }
    ELSE LET shorter == SeqsUpTo(S, n - 1)
         IN shorter \cup { Append(q, x) : q \in shorter, x \in S }

\* custom_steps entries: known names, unknown names and a call with an argument
KnownSteps == { <<"f">>, <<"g">> }
AllSteps ==
    KnownSteps \cup { <<"h">>, <<"j">>, <<"k">>, <<"u">>, <<"w">>, <<"f", "(", "1", ")">> }

QueryChars == {"s", " ", "\"", "\\"}
SampleQuery == <<"s", "\"", "s">>

Tables(cols) == [name : {"DimDate"}, column_policy : Policies, columns : cols]
Partitions(navs, queries, steps) ==
    [name : {"Full"}, navigation : navs, nativeQuery : queries, custom_steps : steps]

VARIABLES partition, table, source, lines, seed_var, error, stage, op, result, mcode

inputs == <<partition, table, source>>
builder == <<lines, seed_var, error, stage, op, result>>

\* The other parts of the program, each a record, or <<>> while the part is
\* not in use.  registry (transforms.py, dax.py): the directories given to
\* the loaders and what each call of a loader returned.  objects (spec.py):
\* the outcome of each construction of a Partition, a CalculatedTableDef or
\* a Table.  emission (emit.py): the table given to emit_table_tmdl, the
\* partitions it sent to generate_partition_mcode and the table file.
\* compilation (compile.py): the tables of the model, the loaded formula
\* templates, the position in the loop over the tables and the files written.
\* parsing (mcode/source_resolver.py): the text given to parse_source_mcode
\* and what it returned.
VARIABLES registry, objects, emission, compilation, parsing
others == <<registry, objects, emission, compilation, parsing>>

vars == <<partition, table, source, lines, seed_var, error, stage, op, result, mcode, others>>

\* mcode: what generate_partition_mcode did on the inputs: not called yet,
\* raised an error, or returned the text of its lines
NotCalled == [status |-> "idle", error |-> NoError, lines |-> <<>>, text |-> NoneSeq]

\* The builder object of the current state
Self == [lines |-> lines, seed_var |-> seed_var, error |-> error]

InitOf(P, T, S) ==
    /\ partition \in P
    /\ table \in T
    /\ source \in S
    /\ lines = NewBuilder.lines
    /\ seed_var = NewBuilder.seed_var
    /\ error = NewBuilder.error
    /\ stage = 0
    /\ op = "__init__"
    /\ result = NoneSeq
    /\ mcode = NotCalled
    /\ registry = <<>> /\ objects = <<>> /\ emission = <<>> /\ compilation = <<>>
    /\ parsing = <<>>

\* The inputs: every combination of navigation, raw query, policy, source and
\* up to MaxSteps steps on a few columns, then raw queries of every shape,
\* columns of every data type, and step lists of every kind
Init ==
    \/ InitOf(Partitions(Navigations, {NoneSeq, SampleQuery},
                         SeqsUpTo(KnownSteps \cup {<<"u">>}, MaxSteps)),
              Tables(PrefixColumns), {SfPlain, SfSales, Excel})
    \/ InitOf(Partitions({NoNav, Nav("HR")}, SeqsUpTo(QueryChars, MaxQueryLen), {<<>>}),
              Tables(PrefixColumns), {SfPlain, SfWh})
    \/ InitOf(Partitions({NoNav, Nav("SALES")}, {NoneSeq}, {<<>>}),
              Tables(WindowColumns), {SfWh, SfRole, Excel})
    \/ InitOf(Partitions({Nav("SALES")}, {NoneSeq}, SeqsUpTo(AllSteps, MaxSteps)),
              Tables({Window(1, 1)}), {SfPlain})

\* The generator is called first, then a builder is driven over the same
\* inputs.  A stage may be called while no stage has raised and build() has
\* not returned.
Open == mcode.status # "idle" /\ error = NoError /\ result = NoneSeq

GeneratePartitionMcode ==
    /\ mcode.status = "idle"
    /\ LET Outcome(r) ==
               IF r.error # NoError
               THEN [status |-> "raised", error |-> r.error, lines |-> <<>>, text |-> NoneSeq]
               ELSE [status |-> "returned", error |-> NoError, lines |-> r.lines,
                     text |-> join(<<"\n">>, r.lines)]
       IN mcode' = Outcome(generate_partition_mcode(partition, table, source))
    /\ UNCHANGED <<others, inputs, builder>>

Becomes(b) == lines' = b.lines /\ seed_var' = b.seed_var /\ error' = b.error

AddSourceConnection ==
    /\ Open /\ stage = 0
    /\ Becomes(add_source_connection(Self, partition, source))
    /\ stage' = 1
    /\ op' = "add_source_connection"
    /\ UNCHANGED <<others, inputs, result, mcode>>

AddNavigation ==
    /\ Open /\ stage = 1
    /\ Becomes(add_navigation(Self, partition))
    /\ stage' = 2
    /\ op' = "add_navigation"
    /\ UNCHANGED <<others, inputs, result, mcode>>

AddNativeQuery ==
    /\ Open /\ stage = 2
    /\ Becomes(add_native_query(Self, partition))
    /\ stage' = 3
    /\ op' = "add_native_query"
    /\ UNCHANGED <<others, inputs, result, mcode>>

AddColumnSelection ==
    /\ Open /\ stage = 3
    /\ Becomes(add_column_selection(Self, table))
    /\ stage' = 4
    /\ op' = "add_column_selection"
    /\ UNCHANGED <<others, inputs, result, mcode>>

AddTypeTransformation ==
    /\ Open /\ stage = 4
    /\ Becomes(add_type_transformation(Self, table))
    /\ stage' = 5
    /\ op' = "add_type_transformation"
    /\ UNCHANGED <<others, inputs, result, mcode>>

AddCustomTransforms ==
    /\ Open /\ stage = 5
    /\ Becomes(add_custom_transforms(Self, partition, table))
    /\ stage' = 6
    /\ op' = "add_custom_transforms"
    /\ UNCHANGED <<others, inputs, result, mcode>>

\* build() may be called after any number of stages
Build ==
    /\ Open
    /\ LET b == build(Self, partition)
       IN /\ Becomes(b)
          /\ result' = IF b.error = NoError THEN join(<<"\n">>, b.lines) ELSE NoneSeq
    /\ op' = "build"
    /\ UNCHANGED <<others, inputs, stage, mcode>>

Next ==
    \/ GeneratePartitionMcode
    \/ AddSourceConnection
    \/ AddNavigation
    \/ AddNativeQuery
    \/ AddColumnSelection
    \/ AddTypeTransformation
    \/ AddCustomTransforms
    \/ Build

Spec == Init /\ [][Next]_vars


(***************************************************************************)
(* transforms.py and dax.py: the registries of snippets and of formula     *)
(* templates.  A directory is [path, exists, files]; files is the order in *)
(* which rglob yields the files below it; a file is [name, text], the name *)
(* a sequence of characters with the extension as its last element.        *)
(***************************************************************************)
Digits == {"0", "1", "2", "3", "4", "5", "6", "7", "8", "9"}

\* transforms.canonical_name and dax.canonical_name: ext is '.m.j2' or
\* '.dax'; re.sub(r"[^A-Za-z0-9_]", "_", name), and "_" in front of what is
\* not an identifier
canonical_name(name, ext) ==
    LET Safe(stem) ==
            (IF stem = <<>> \/ stem[1] \in Digits THEN "_" ELSE "")
                \o Concat([i \in 1..Len(stem) |-> IF IsWord(stem[i]) THEN stem[i] ELSE "_"])
    IN Safe(IF name # <<>> /\ name[Len(name)] = ext
            THEN SubSeq(name, 1, Len(name) - 1) ELSE name)

\* d.rglob("*" + ext): the files of the directory whose name ends with ext
RECURSIVE rglob(_, _)
rglob(files, ext) ==
    IF files = <<>> THEN <<>>
    ELSE (IF Head(files).name # <<>> /\ Head(files).name[Len(Head(files).name)] = ext
          THEN <<Head(files)>> ELSE <<>>)
         \o rglob(Tail(files), ext)

\* text.lstrip('\ufeff')
RECURSIVE lstrip_bom(_)
lstrip_bom(text) ==
    IF text # <<>> /\ Head(text) = "\\ufeff" THEN lstrip_bom(Tail(text)) ELSE text

\* transforms._normalize_transform
_normalize_transform(text) ==
    LET Split(first_line, rest) ==
            IF /\ strip(first_line) # <<>> /\ Head(strip(first_line)) = "("
               /\ \A i \in 1..Len(first_line) : first_line[i] # "=>"
               /\ \E i \in 1..Len(rest) : rest[i] = "let"
            THEN first_line \o <<" ", "=>", "\n">> \o rest
            ELSE text
        At(cut) ==
            IF cut = {} THEN text
            ELSE Split(SubSeq(text, 1, Min(cut) - 1), SubSeq(text, Min(cut) + 1, Len(text)))
    IN At({ i \in 1..Len(text) : text[i] = "\n" })

\* str.lower() on the tokens of the model that hold capitals (re.IGNORECASE)
lower(tok) ==
    CASE tok = "AS" -> "as"
      [] tok = "TABLE" -> "table"
      [] tok = "Table" -> "table"
      [] tok = "T" -> "t"
      [] tok = "Sum" -> "sum"
      [] OTHER -> tok

\* SIG.search(text):
\* r"^\s*\(\s*[A-Za-z_][A-Za-z0-9_]*\s+as\s+table\s*\)\s+as\s+table\s*(=>|\s)"
SIG(text) ==
    LET LitI(i, tok) == IF i >= 1 /\ lower(Tok(text, i)) = tok THEN i + 1 ELSE 0
        Ident(i) == IF i >= 1 /\ IsWord(Tok(text, i)) /\ Tok(text, i) \notin Digits
                    THEN i + 1 ELSE 0
        End(h) == h # 0 /\ (IsSpace(Tok(text, h)) \/ Tok(text, SkipWs(text, h)) = "=>")
        Closed(e) == End(LitI(SomeWs(text, LitI(SomeWs(text, e), "as")), "table"))
        Typed(d) == Closed(IF d = 0 THEN 0 ELSE Lit(text, SkipWs(text, d), ")"))
        Named(b) == Typed(LitI(SomeWs(text, LitI(SomeWs(text, b), "as")), "table"))
        Opened(a) == Named(IF a = 0 THEN 0 ELSE Ident(SkipWs(text, a)))
    IN Opened(Lit(text, SkipWs(text, 1), "("))

\* validate_signature: the message of the ValueError, or no error
validate_signature(text, src) ==
    IF ~SIG(text)
    THEN src \o <<": transform must start with '(t as table) as table =>' or '(t as table) as table' followed by newline">>
    ELSE NoError

\* As reversed, but the list as it is
in_order(ds) == ds

\* reversed(dirs)
reversed(ds) == [i \in 1..Len(ds) |-> ds[Len(ds) + 1 - i]]

\* As LoadTransformFiles, but a file whose name is already in the mapping is
\* skipped before its signature is checked
RECURSIVE LoadTransformFilesShadowed(_, _, _)
LoadTransformFilesShadowed(d, files, acc) ==
    IF files = <<>> \/ acc.error # NoError THEN acc
    ELSE LET Checked(name, text, err) ==
                 IF name \in DOMAIN acc.merged THEN acc
                 ELSE IF err # NoError THEN [acc EXCEPT !.error = err]
                 ELSE [acc EXCEPT !.merged = @ @@ (name :> text)]
             Read(p, text) ==
                 Checked(canonical_name(p.name, ".m.j2"), text,
                         validate_signature(text, <<d.path, "/">> \o p.name))
         IN LoadTransformFilesShadowed(d, Tail(files),
                                       Read(Head(files), _normalize_transform(lstrip_bom(Head(files).text))))

\* load_transforms: the loop "for p in d.rglob(pattern)"; acc is the mapping
\* merged and the error raised, if any
RECURSIVE LoadTransformFiles(_, _, _)
LoadTransformFiles(d, files, acc) ==
    IF files = <<>> \/ acc.error # NoError THEN acc
    ELSE LET Checked(name, text, err) ==
                 IF err # NoError THEN [acc EXCEPT !.error = err]
                 ELSE IF name \in DOMAIN acc.merged THEN acc
                 ELSE [acc EXCEPT !.merged = @ @@ (name :> text)]
             Read(p, text) ==
                 Checked(canonical_name(p.name, ".m.j2"), text,
                         validate_signature(text, <<d.path, "/">> \o p.name))
         IN LoadTransformFiles(d, Tail(files),
                               Read(Head(files), _normalize_transform(lstrip_bom(Head(files).text))))

\* load_transforms: the loop "for d in reversed(dirs)"
RECURSIVE LoadTransformDirs(_, _)
LoadTransformDirs(ds, acc) ==
    IF ds = <<>> THEN acc
    ELSE LoadTransformDirs(Tail(ds),
                           LoadTransformFiles(Head(ds), rglob(Head(ds).files, ".m.j2"), acc))

\* load_transforms: the mapping returned, or the error raised
load_transforms(ds) ==
    LET Outcome(acc) ==
            IF acc.error # NoError
            THEN [status |-> "raised", merged |-> <<>>, error |-> acc.error]
            ELSE [status |-> "returned", merged |-> acc.merged, error |-> NoError]
    IN Outcome(LoadTransformDirs(reversed(ds), [merged |-> <<>>, error |-> NoError]))

\* load_dax_templates: the loop "for p in d.rglob("*.dax")"
RECURSIVE LoadDaxFiles(_, _)
LoadDaxFiles(files, merged) ==
    IF files = <<>> THEN merged
    ELSE LET Kept(name, text) ==
                 IF name \in DOMAIN merged THEN merged ELSE merged @@ (name :> text)
         IN LoadDaxFiles(Tail(files),
                         Kept(canonical_name(Head(files).name, ".dax"),
                              strip(lstrip_bom(Head(files).text))))

\* load_dax_templates: the loop "for d in reversed(dirs)"
RECURSIVE LoadDaxDirs(_, _)
LoadDaxDirs(ds, merged) ==
    IF ds = <<>> THEN merged
    ELSE IF ~Head(ds).exists THEN LoadDaxDirs(Tail(ds), merged)
    ELSE LoadDaxDirs(Tail(ds), LoadDaxFiles(rglob(Head(ds).files, ".dax"), merged))

load_dax_templates(ds) ==
    [status |-> "returned", merged |-> LoadDaxDirs(reversed(ds), <<>>), error |-> NoError]

\* The directories: snippets with "=>", a let block without "=>", capitals,
\* a byte-order mark, two files of one canonical name, a function returning
\* a function, a signature followed by a blank, a signature alone and no
\* signature, one file without signature under a name another directory
\* holds; templates with blanks around them and under the same names
DirPool ==
    LET File(name, text) == [name |-> name, text |-> text]
        Dir(path, files) == [path |-> path, exists |-> TRUE, files |-> files]
        TLet ==
            <<"(", "t", " ", "as", " ", "table", ")", " ", "as", " ", "table", "\n",
              "let", "\n", " ", " ", "Out", " ", "=", " ", "Table", ".", "Buffer", "(", "t", ")", "\n",
              "in", "\n", " ", " ", "Out">>
        TUpper == <<"(", "T", " ", "AS", " ", "TABLE", ")", " ", "AS", " ", "TABLE", " ", "=>", " ", "T">>
        TFunction ==
            <<"(", "n", " ", "as", " ", "number", ")", " ", "as", " ", "function", " ", "=>", " ">>
                \o Transforms.f
        TNoSig == <<"let", " ", "x", " ", "=", " ", "1", " ", "in", " ", "x">>
        TBare == <<"(", "t", " ", "as", " ", "table", ")", " ", "as", " ", "table">>
        TSpace == TBare \o <<" ", "Table", ".", "Distinct", "(", "t", ")">>
    IN { Dir("global", << File(<<"clean", ".m.j2">>, Transforms.f),
                          File(<<"shape", ".m.j2">>, TLet),
                          File(<<"template", ".dax">>, <<"GLOBAL", " ", "VERSION">>),
                          File(<<"info", ".dax">>, <<" ", "INFO", ".", "VIEWTABLES", "(", ")", "\n">>) >>),
         Dir("local", << File(<<"clean", ".m.j2">>, TUpper),
                         File(<<"template", ".dax">>, <<"\\ufeff", "LOCAL", " ", "VERSION">>) >>),
         Dir("extra", << File(<<"a", "-", "b", ".m.j2">>, <<"\\ufeff">> \o Transforms.h),
                         File(<<"a", "_", "b", ".m.j2">>, Transforms.f),
                         File(<<"1", "st", ".dax">>, <<"FIRST">>),
                         File(<<"template", ".dax">>, <<"EXTRA", " ", "VERSION">>) >>),
         Dir("hof", << File(<<"apply", ".m.j2">>, TFunction),
                       File(<<"info", ".dax">>, <<"INFO", ".", "VIEWCOLUMNS", "(", ")">>) >>),
         Dir("broken", << File(<<"bare", ".m.j2">>, TBare), File(<<"clean", ".m.j2">>, TNoSig) >>),
         Dir("loose", << File(<<"shape", ".m.j2">>, TSpace) >>),
         Dir("stale", << File(<<"clean", ".m.j2">>, TNoSig) >>),
         [path |-> "missing", exists |-> FALSE, files |-> <<>>] }

\* The longest list of directories, and the calls made of each loader
MaxDirs == 3
MaxCalls == 2

\* The partition code generators are not in use
generators ==
    <<partition, table, source, lines, seed_var, error, stage, op, result, mcode, parsing>>
GeneratorsIdle ==
    /\ partition = <<>> /\ table = <<>> /\ source = <<>>
    /\ lines = <<>> /\ seed_var = <<>> /\ error = <<>> /\ stage = 0 /\ op = ""
    /\ result = <<>> /\ mcode = <<>> /\ parsing = <<>>

RegistryInit ==
    /\ registry \in [dirs : SeqsUpTo(DirPool, MaxDirs), transforms_calls : {<<>>}, dax_calls : {<<>>}]
    /\ GeneratorsIdle /\ objects = <<>> /\ emission = <<>> /\ compilation = <<>>

LoadTransforms ==
    /\ Len(registry.transforms_calls) < MaxCalls
    /\ registry' = [registry EXCEPT !.transforms_calls = Append(@, load_transforms(registry.dirs))]
    /\ UNCHANGED <<generators, objects, emission, compilation>>

LoadDaxTemplates ==
    /\ Len(registry.dax_calls) < MaxCalls
    /\ registry' = [registry EXCEPT !.dax_calls = Append(@, load_dax_templates(registry.dirs))]
    /\ UNCHANGED <<generators, objects, emission, compilation>>

RegistrySpec == RegistryInit /\ [][LoadTransforms \/ LoadDaxTemplates]_vars


(***************************************************************************)
(* spec.py: the validated model objects.  A string field that is None is   *)
(* "", a list that is None is <<>>; a constructor gives the object or the  *)
(* message of the error it raised.  A run constructs one object.           *)
(***************************************************************************)
\* CalculatedTableDef.validate_expression_or_template
validate_expression_or_template(self) ==
    IF self.expression # "" /\ self.template # ""
    THEN <<"calculatedTableDef cannot have both 'expression' and 'template'">>
    ELSE IF self.expression = "" /\ self.template = ""
    THEN <<"calculatedTableDef must have either 'expression' or 'template'">>
    ELSE NoError

\* Partition.validate_partition_type
validate_partition_type(self) ==
    IF self.mode = "directLake"
    THEN IF self.entityName = "" \/ self.schemaName = "" \/ self.expressionSource = ""
         THEN <<"directLake partition requires entityName, schemaName, and expressionSource">>
         ELSE IF self.navigation.present \/ self.nativeQuery # ""
         THEN <<"directLake partition should not have navigation or nativeQuery">>
         ELSE NoError
    ELSE IF self.use = ""
         THEN <<"import/directquery partition requires 'use' field to reference a source">>
         ELSE IF self.entityName # "" \/ self.schemaName # "" \/ self.expressionSource # ""
         THEN <<"import/directquery partition should not have entityName, schemaName, or expressionSource">>
         ELSE NoError

\* str.upper() on the names of aggregation functions
upper(tok) ==
    CASE tok = "sum" -> "SUM"
      [] tok = "Sum" -> "SUM"
      [] tok = "avg" -> "AVG"
      [] tok = "average" -> "AVERAGE"
      [] tok = "min" -> "MIN"
      [] tok = "max" -> "MAX"
      [] tok = "count" -> "COUNT"
      [] tok = "countrows" -> "COUNTROWS"
      [] tok = "distinctcount" -> "DISTINCTCOUNT"
      [] tok = "median" -> "MEDIAN"
      [] OTHER -> tok

\* Table._generate_dax_expression
_generate_dax_expression(agg_func, column_ref) ==
    LET Known(agg_func_lower) ==
            CASE agg_func_lower = "sum" -> "SUM(" \o column_ref \o ")"
              [] agg_func_lower = "avg" -> "AVERAGE(" \o column_ref \o ")"
              [] agg_func_lower = "average" -> "AVERAGE(" \o column_ref \o ")"
              [] agg_func_lower = "min" -> "MIN(" \o column_ref \o ")"
              [] agg_func_lower = "max" -> "MAX(" \o column_ref \o ")"
              [] agg_func_lower = "count" -> "COUNT(" \o column_ref \o ")"
              [] agg_func_lower = "countrows" -> "COUNTROWS(" \o column_ref \o ")"
              [] agg_func_lower = "distinctcount" -> "DISTINCTCOUNT(" \o column_ref \o ")"
              [] OTHER -> upper(agg_func) \o "(" \o column_ref \o ")"
    IN Known(lower(agg_func))

\* The text of a columns entry of base_measures: the references of refs,
\* each "table.column" or "column" or nothing, with ", " between them
RECURSIVE columns_str(_)
columns_str(refs) ==
    IF refs = <<>> THEN <<>>
    ELSE (IF Head(refs).table = <<>> THEN <<>> ELSE Head(refs).table \o <<".">>)
         \o (IF Head(refs).column = "" THEN <<>> ELSE <<Head(refs).column>>)
         \o (IF Tail(refs) = <<>> THEN <<>> ELSE <<",", " ">> \o columns_str(Tail(refs)))

\* Table._generate_measures_from_base: base_measures is the dictionary as
\* the sequence of its items <<agg_func, columns_str>>
RECURSIVE _generate_measures_from_base(_)
_generate_measures_from_base(base_measures) ==
    IF base_measures = <<>> THEN <<>>
    ELSE LET Cuts(s) == {0} \cup { i \in 1..Len(s) : s[i] = "," } \cup {Len(s) + 1}
             Nth(S, k) == CHOOSE x \in S : Cardinality({ y \in S : y < x }) = k - 1
             \* [col.strip() for col in columns_str.split(',')]
             Split(s) ==
                 [k \in 1..(Cardinality(Cuts(s)) - 1) |->
                     strip(SubSeq(s, Nth(Cuts(s), k) + 1, Nth(Cuts(s), k + 1) - 1))]
             NotEmpty(col_ref) == col_ref # <<>>
             Dots(col_ref) == { i \in 1..Len(col_ref) : col_ref[i] = "." }
             Measure(agg_func, table_name, column_name) ==
                 [name |-> agg_func \o "_" \o column_name,
                  expression |->
                      _generate_dax_expression(agg_func,
                          IF table_name # ""
                          THEN "'" \o table_name \o "'[" \o column_name \o "]"
                          ELSE "[" \o column_name \o "]")]
             \* col_ref.rsplit('.', 1)
             OfRef(agg_func, col_ref) ==
                 IF Dots(col_ref) # {}
                 THEN Measure(agg_func, Concat(SubSeq(col_ref, 1, Max(Dots(col_ref)) - 1)),
                              Concat(SubSeq(col_ref, Max(Dots(col_ref)) + 1, Len(col_ref))))
                 ELSE Measure(agg_func, "", Concat(col_ref))
             OfItem(agg_func, column_refs) ==
                 [i \in 1..Len(column_refs) |-> OfRef(agg_func, column_refs[i])]
         IN OfItem(Head(base_measures)[1], SelectSeq(Split(Head(base_measures)[2]), NotEmpty))
            \o _generate_measures_from_base(Tail(base_measures))

\* normalized_base.update(item) for each item of the list form
RECURSIVE normalized_base(_, _)
normalized_base(items, acc) ==
    IF items = <<>> THEN acc
    ELSE LET Update(item, at) ==
                 IF at = {} THEN Append(acc, item)
                 ELSE [acc EXCEPT ![Min(at)] = item]
         IN normalized_base(Tail(items),
                            Update(Head(items), { i \in 1..Len(acc) : acc[i][1] = Head(items)[1] }))

\* Table.populate_partitions_and_base_measures: values with the measures
\* generated from base_measures in front of the measures given.
\* base_measures is [form, items], the form "none", "dict" or "list", an
\* item [agg_func, refs]
populate_partitions_and_base_measures(values) ==
    LET Texts(items) == [i \in 1..Len(items) |-> <<items[i].agg_func, columns_str(items[i].refs)>>]
        Expanded(base) ==
            IF base = <<>> THEN values
            ELSE [values EXCEPT !.measures = _generate_measures_from_base(base) \o @]
    IN IF values.base_measures.items = <<>> THEN values
       ELSE IF values.base_measures.form = "list"
       THEN Expanded(normalized_base(Texts(values.base_measures.items), <<>>))
       ELSE Expanded(Texts(values.base_measures.items))

\* As validate_table_kind_constraints, but a measureTable may be empty
validate_table_kind_constraints_lenient(self) ==
    IF self.kind # "measureTable" /\ self.partitions = <<>> /\ self.kind = "table"
    THEN <<"table kind 'table' must define at least one partition">>
    ELSE NoError

\* Table.validate_table_kind_constraints
validate_table_kind_constraints(self) ==
    CASE self.kind = "measureTable" ->
            IF self.columns # <<>> THEN <<"measureTable must not define columns">>
            ELSE IF self.partitions # <<>> THEN <<"measureTable must not define partitions">>
            ELSE IF self.measures = <<>> THEN <<"measureTable must define at least one measure">>
            ELSE NoError
      [] self.kind = "calculatedTable" ->
            IF self.partitions # <<>> THEN <<"calculatedTable must not define partitions">>
            ELSE IF ~self.calculatedTableDef.present
            THEN <<"calculatedTable must define calculatedTableDef">>
            ELSE NoError
      [] self.kind = "fieldParameter" ->
            IF self.partitions # <<>> THEN <<"fieldParameter must not define partitions">>
            ELSE NoError
      [] self.kind = "calculationGroup" ->
            IF self.partitions # <<>> THEN <<"calculationGroup must not define partitions">>
            ELSE IF self.calculationGroupItems = <<>>
            THEN <<"calculationGroup must define at least one calculationGroupItem">>
            ELSE NoError
      [] self.kind = "table" ->
            IF self.partitions = <<>>
            THEN <<"table kind 'table' must define at least one partition">>
            ELSE NoError

\* The field values given to the constructors.  Partition: every mode with
\* and without each of the other fields
PartitionFields ==
    [name : {"Full"}, mode : {"import", "directquery", "directLake"}, use : {"", "sf_main"},
     navigation : {NoNav, Nav("SALES")}, nativeQuery : {"", "select 1"},
     entityName : {"", "sales"}, schemaName : {"", "dbo"}, expressionSource : {"", "Lake"}]

\* CalculatedTableDef: expression and template None, empty or given; a Table
\* is given no definition or one that was constructed
DefFields ==
    [present : {TRUE}, expression : {"", "DISTINCT(Sales[Country])"}, template : {"", "metadata"}]

\* base_measures: none, or the mapping form (each function once) or the list
\* form of up to MaxItems items, each a function and up to MaxRefs references
MaxItems == 2
MaxRefs == 2
BaseMeasures ==
    LET Refs ==
            { [table |-> <<"t">>, column |-> "a"], [table |-> <<>>, column |-> "c"],
              [table |-> <<"s", ".", "t">>, column |-> "b"],
              [table |-> <<>>, column |-> ""] }
        Functions ==
            {"sum", "avg", "average", "min", "max", "count", "countrows", "distinctcount",
             "median", "Sum"}
        Items ==
            [agg_func : {"sum"}, refs : SeqsUpTo(Refs, MaxRefs)]
                \cup [agg_func : Functions, refs : { <<[table |-> <<"t">>, column |-> "a"]>> }]
        Lists == SeqsUpTo(Items, MaxItems)
    IN { [form |-> "none", items |-> <<>>] }
           \cup [form : {"list"}, items : Lists]
           \cup [form : {"dict"},
                 items : { l \in Lists : \A i, j \in 1..Len(l) : l[i].agg_func = l[j].agg_func => i = j }]

\* Table: every kind with and without columns, partitions, measures,
\* generated measures, a definition and calculation group items; then every
\* base_measures with and without an authored measure named as a generated one
TableValues ==
    LET Made(fields, validate(_)) == { f \in fields : validate(f) = NoError }
        Some(partitions) ==
            { p \in partitions : p.use = "sf_main" /\ p.navigation.present /\ p.nativeQuery = "" }
        Authored == [name |-> "sum_a", expression |-> "SUMX(t, t[a])"]
        NoDef == [present |-> FALSE, expression |-> "", template |-> ""]
        Few ==
            { b \in BaseMeasures :
                \/ b.items = <<>>
                \/ /\ b.form = "dict" /\ Len(b.items) = 1 /\ b.items[1].agg_func = "sum"
                   /\ Len(b.items[1].refs) = 1 /\ b.items[1].refs[1].table = <<>> }
    IN [name : {"Sales"},
        kind : {"table", "measureTable", "calculatedTable", "fieldParameter", "calculationGroup"},
        columns : { <<>>, <<ColPool[1]>> },
        measures : { <<>>, <<Authored>> },
        partitions : SeqsUpTo(Some(Made(PartitionFields, validate_partition_type)), 2),
        base_measures : Few,
        calculatedTableDef : {NoDef} \cup Made(DefFields, validate_expression_or_template),
        calculationGroupItems : { <<>>, <<[name |-> "YTD", expression |-> "CALCULATE(SELECTEDMEASURE())"]>> }]
       \cup
       [name : {"Sales"}, kind : {"measureTable"}, columns : { <<>> },
        measures : { <<>>, <<Authored>> }, partitions : { <<>> },
        base_measures : BaseMeasures, calculatedTableDef : {NoDef},
        calculationGroupItems : { <<>> }]

ObjectsInit ==
    /\ objects = [cls |-> "", fields |-> <<>>, error |-> NoError, value |-> <<>>]
    /\ GeneratorsIdle /\ registry = <<>> /\ emission = <<>> /\ compilation = <<>>

\* Partition(**fields)
NewPartition ==
    /\ objects.cls = ""
    /\ \E fields \in PartitionFields :
           objects' = [cls |-> "Partition", fields |-> fields,
                       error |-> validate_partition_type(fields), value |-> fields]
    /\ UNCHANGED <<generators, registry, emission, compilation>>

\* CalculatedTableDef(**fields)
NewCalculatedTableDef ==
    /\ objects.cls = ""
    /\ \E fields \in DefFields :
           objects' = [cls |-> "CalculatedTableDef", fields |-> fields,
                       error |-> validate_expression_or_template(fields), value |-> fields]
    /\ UNCHANGED <<generators, registry, emission, compilation>>

\* Table(**values): the validator that runs before the fields are read,
\* then the one that runs on the object
NewTable ==
    /\ objects.cls = ""
    /\ \E values \in TableValues :
           LET Validated(self) ==
                   [cls |-> "Table", fields |-> values,
                    error |-> validate_table_kind_constraints(self), value |-> self]
           IN objects' = Validated(populate_partitions_and_base_measures(values))
    /\ UNCHANGED <<generators, registry, emission, compilation>>

ObjectsSpec == ObjectsInit /\ [][NewPartition \/ NewCalculatedTableDef \/ NewTable]_vars


(***************************************************************************)
(* emit.py: emit_table_tmdl.  The table file is the name it is written     *)
(* under and the table and the partition code handed to the template.      *)
(***************************************************************************)
\* As emit_table_tmdl, but with the last partition of the table
emit_table_tmdl_last(t, sources) ==
    LET Rendered(p, r) ==
            [generated |-> <<p>>, error |-> r.error,
             file |-> IF r.error # NoError
                      THEN [written |-> FALSE, name |-> "", table |-> <<>>, partition_mcode |-> NoneSeq]
                      ELSE [written |-> TRUE, name |-> t.name \o ".tmdl", table |-> t,
                            partition_mcode |-> join(<<"\n">>, r.lines)]]
    IN IF t.partitions # <<>> /\ t.partitions[Len(t.partitions)].mode # "directLake"
       THEN Rendered(t.partitions[Len(t.partitions)],
                     generate_partition_mcode(t.partitions[Len(t.partitions)], t, sources))
       ELSE [generated |-> <<>>, error |-> NoError,
             file |-> [written |-> TRUE, name |-> t.name \o ".tmdl", table |-> t,
                       partition_mcode |-> NoneSeq]]

\* emit_table_tmdl: the partitions sent to generate_partition_mcode, the
\* error that left the function, and the file written
emit_table_tmdl(t, sources) ==
    LET Rendered(first_partition, r) ==
            [generated |-> <<first_partition>>, error |-> r.error,
             file |-> IF r.error # NoError
                      THEN [written |-> FALSE, name |-> "", table |-> <<>>, partition_mcode |-> NoneSeq]
                      ELSE [written |-> TRUE, name |-> t.name \o ".tmdl", table |-> t,
                            partition_mcode |-> join(<<"\n">>, r.lines)]]
    IN IF t.partitions # <<>> /\ t.partitions[1].mode # "directLake"
       THEN Rendered(t.partitions[1], generate_partition_mcode(t.partitions[1], t, sources))
       ELSE [generated |-> <<>>, error |-> NoError,
             file |-> [written |-> TRUE, name |-> t.name \o ".tmdl", table |-> t,
                       partition_mcode |-> NoneSeq]]

\* The most partitions of a table
MaxParts == 2

\* The tables given to emit_table_tmdl: up to MaxParts partitions, each with
\* a navigation target (with known and unknown steps), a raw query, neither,
\* or a directLake entity
EmissionInit ==
    LET M(navigation, nativeQuery, custom_steps) ==
            [name |-> "Full", mode |-> "import", navigation |-> navigation,
             nativeQuery |-> nativeQuery, custom_steps |-> custom_steps]
        Pool ==
            { M(Nav("SALES"), NoneSeq, <<>>), M(Nav(""), NoneSeq, << <<"f">> >>),
              M(Nav("SALES"), NoneSeq, << <<"u">> >>), M(NoNav, SampleQuery, <<>>),
              M(NoNav, NoneSeq, <<>>),
              [name |-> "Lake", mode |-> "directLake", navigation |-> NoNav,
               nativeQuery |-> NoneSeq, custom_steps |-> <<>>] }
    IN /\ emission \in
              [table : [name : {"DimDate"}, column_policy : Policies, columns : {Window(1, 1)},
                        partitions : SeqsUpTo(Pool, MaxParts)],
               sources : {SfPlain, SfSales, Excel},
               done : {FALSE}, generated : {<<>>}, error : {NoError},
               file : {[written |-> FALSE, name |-> "", table |-> <<>>, partition_mcode |-> NoneSeq]}]
       /\ GeneratorsIdle /\ registry = <<>> /\ objects = <<>> /\ compilation = <<>>

EmitTableTmdl ==
    /\ ~emission.done
    /\ LET Emitted(r) ==
               [emission EXCEPT !.done = TRUE, !.generated = r.generated, !.error = r.error,
                                !.file = r.file]
       IN emission' = Emitted(emit_table_tmdl(emission.table, emission.sources))
    /\ UNCHANGED <<generators, registry, objects, compilation>>

EmissionSpec == EmissionInit /\ [][EmitTableTmdl]_vars


(***************************************************************************)
(* compile.py: the loop of compile_project over the tables of the model.   *)
(* pc is the position in the body of the loop for table number i; log      *)
(* holds the steps taken, files the table files written.                   *)
(***************************************************************************)
\* The positional parameters of emit_table_tmdl
emit_table_tmdl_parameters == <<"tbl_dir", "table", "sources", "transforms">>

\* The most tables of a model
MaxTables == 2

\* The models: up to MaxTables tables, calculated from a template that is
\* loaded ("template") or not ("missing") or from an expression, a plain
\* table and a measure table, with or without relationships; the templates
\* are those load_dax_templates returns for no directory or one.  validated
\* is the model as validation left it.
CompilationInit ==
    LET Col(name, dataType, summarizeBy) ==
            [name |-> name, dataType |-> dataType, sourceColumn |-> NoneSeq,
             summarizeBy |-> summarizeBy, isNameInferred |-> FALSE]
        Calculated(name, expression, template, columns) ==
            [name |-> name, kind |-> "calculatedTable", column_policy |-> "keep_all",
             columns |-> columns, partitions |-> <<>>,
             calculatedTableDef |-> [present |-> TRUE, expression |-> expression, template |-> template]]
        NoDef == [present |-> FALSE, expression |-> NoneSeq, template |-> ""]
        Pool ==
            { Calculated("Meta", NoneSeq, "template", << Col("Date", "date", "") >>),
              Calculated("Lost", NoneSeq, "missing", << Col("Date", "date", "") >>),
              Calculated("Countries",
                         <<"SUMMARIZE", "(", "Sales", ",", " ", "Sales", "[", "Country", "]", ",", " ",
                           "\"", "Total", "\"", ",", " ", "[", "Total", "]", ")">>, "",
                         << Col("Country", "string", ""), Col("Total", "decimal", "none"),
                            Col("Year", "int64", "") >>),
              [name |-> "DimDate", kind |-> "table", column_policy |-> "keep_all",
               columns |-> << Col("Date", "date", ""), Col("Year", "int64", "none") >>,
               calculatedTableDef |-> NoDef,
               partitions |-> << [name |-> "Full", mode |-> "import", navigation |-> Nav("SALES"),
                                  nativeQuery |-> NoneSeq, custom_steps |-> <<>>] >>],
              [name |-> "_Measures", kind |-> "measureTable", column_policy |-> "keep_all",
               columns |-> <<>>, calculatedTableDef |-> NoDef, partitions |-> <<>>] }
    IN /\ compilation \in
              { [tables |-> ts, validated |-> ts, relationships |-> rel, stub_report |-> stub,
                 dax_templates |-> load_dax_templates(ds).merged, sources |-> SfSales,
                 i |-> 1, pc |-> "start", log |-> <<>>, files |-> <<>>, written |-> <<>>,
                 outcome |-> "running", error |-> NoError] :
                    ts \in SeqsUpTo(Pool, MaxTables), ds \in SeqsUpTo(DirPool, 1),
                    rel \in BOOLEAN, stub \in BOOLEAN }
       /\ GeneratorsIdle /\ registry = <<>> /\ objects = <<>> /\ emission = <<>>

\* emit_pbism, emit_database_tmdl, emit_model_tmdl, emit_culture_tmdl: the
\* files written before the loop over the tables
EmitModelFiles ==
    /\ compilation.pc = "start"
    /\ compilation' =
           [compilation EXCEPT
               !.written = <<"definition.pbism", "database.tmdl", "model.tmdl", "cultures/en-US.tmdl">>,
               !.pc = "resolve"]
    /\ UNCHANGED <<generators, registry, objects, emission>>

\* As ResolveTemplate, but the template name is cleared once it is resolved
ResolveTemplateOnce ==
    /\ compilation.pc = "resolve" /\ compilation.i <= Len(compilation.tables)
    /\ LET Resolved(i, t, template_name) ==
               IF ~(t.kind = "calculatedTable" /\ t.calculatedTableDef.present
                    /\ template_name # "")
               THEN [compilation EXCEPT !.pc = "infer"]
               ELSE IF template_name \in DOMAIN compilation.dax_templates
               THEN [compilation EXCEPT
                        !.tables[i].calculatedTableDef.expression =
                            compilation.dax_templates[template_name],
                        !.tables[i].calculatedTableDef.template = "",
                        !.log = Append(@, [table |-> i, step |-> "resolve", expression |-> NoneSeq]),
                        !.pc = "infer"]
               ELSE [compilation EXCEPT
                        !.pc = "done", !.outcome = "ValueError",
                        !.error = <<"DAX template '", template_name, "' not found for table '",
                                    t.name, "'. Available templates: ">>]
       IN compilation' = Resolved(compilation.i, compilation.tables[compilation.i],
                                  compilation.tables[compilation.i].calculatedTableDef.template)
    /\ UNCHANGED <<generators, registry, objects, emission>>

\* "Resolve DAX templates before processing"
ResolveTemplate ==
    /\ compilation.pc = "resolve" /\ compilation.i <= Len(compilation.tables)
    /\ LET Resolved(i, t, template_name) ==
               IF ~(t.kind = "calculatedTable" /\ t.calculatedTableDef.present
                    /\ template_name # "")
               THEN [compilation EXCEPT !.pc = "infer"]
               ELSE IF template_name \in DOMAIN compilation.dax_templates
               THEN [compilation EXCEPT
                        !.tables[i].calculatedTableDef.expression =
                            compilation.dax_templates[template_name],
                        !.log = Append(@, [table |-> i, step |-> "resolve", expression |-> NoneSeq]),
                        !.pc = "infer"]
               ELSE [compilation EXCEPT
                        !.pc = "done", !.outcome = "ValueError",
                        !.error = <<"DAX template '", template_name, "' not found for table '",
                                    t.name, "'. Available templates: ">>]
       IN compilation' = Resolved(compilation.i, compilation.tables[compilation.i],
                                  compilation.tables[compilation.i].calculatedTableDef.template)
    /\ UNCHANGED <<generators, registry, objects, emission>>

\* set_regular_table_column_properties / infer_calculated_table_column_properties:
\* the expression the inference reads and the columns it leaves
InferProperties ==
    /\ compilation.pc = "infer"
    /\ LET SummarizeBy(c) ==
               IF c.dataType \in {"int64", "decimal", "double", "currency"} THEN "sum" ELSE "none"
           \* set_regular_table_column_properties: only what is not set
           Regular(c) ==
               [c EXCEPT !.sourceColumn = IF @ = NoneSeq THEN <<c.name>> ELSE @,
                         !.summarizeBy = IF @ = "" THEN SummarizeBy(c) ELSE @]
           \* r"([A-Za-z_][\w ]*)\[([^\]]+)\]": where Table[Column] names the column
           Refs(e, name) ==
               { n \in 1..(Len(e) - 3) :
                   IsWord(e[n]) /\ e[n] \notin Digits /\ e[n + 1] = "[" /\ e[n + 2] = name
                       /\ e[n + 3] = "]" }
           \* r'"([^"]+)"\s*,\s*\[([^\]]+)\]': where "Column", [Measure] names the column
           Calcs(e, name) ==
               { n \in 1..(Len(e) - 6) :
                   /\ e[n] = "\"" /\ e[n + 1] = name /\ e[n + 2] = "\""
                   /\ Tok(e, SkipWs(e, n + 3)) = ","
                   /\ Tok(e, SkipWs(e, SkipWs(e, n + 3) + 1)) = "["
                   /\ Tok(e, SkipWs(e, SkipWs(e, n + 3) + 1) + 2) = "]" }
           MeasureAt(e, n) == e[SkipWs(e, SkipWs(e, n + 3) + 1) + 1]
           \* r'SUMMARIZE\s*\(\s*([A-Za-z_][\w ]*)\s*,': where the base table stands
           Bases(e) ==
               { n \in 1..Len(e) :
                   /\ e[n] \in {"SUMMARIZE", "Summarize", "summarize"}
                   /\ Tok(e, SkipWs(e, n + 1)) = "("
                   /\ IsWord(Tok(e, SkipWs(e, SkipWs(e, n + 1) + 1)))
                   /\ Tok(e, SkipWs(e, SkipWs(e, SkipWs(e, n + 1) + 1) + 1)) = "," }
           BaseAt(e, n) == e[SkipWs(e, SkipWs(e, n + 1) + 1)]
           \* f'"{col_name}"' in dax_expr
           QuotedIn(e, name) ==
               \E n \in 1..(Len(e) - 2) : e[n] = "\"" /\ e[n + 1] = name /\ e[n + 2] = "\""
           \* source_mapping[col_name]: the calculated columns are entered last
           Mapping(e, name) ==
               IF Calcs(e, name) # {}
               THEN (IF Bases(e) # {} THEN <<BaseAt(e, Min(Bases(e)))>> ELSE <<>>)
                        \o <<"[", MeasureAt(e, Max(Calcs(e, name))), "]">>
               ELSE <<e[Max(Refs(e, name))], "[", name, "]">>
           Calculated(c, e) ==
               IF Calcs(e, c.name) # {} \/ Refs(e, c.name) # {}
               THEN [c EXCEPT !.sourceColumn = Mapping(e, c.name),
                              !.isNameInferred =
                                  IF Refs(e, c.name) # {} /\ ~QuotedIn(e, c.name) THEN TRUE ELSE @,
                              !.summarizeBy = SummarizeBy(c)]
               ELSE [c EXCEPT !.summarizeBy = SummarizeBy(c)]
           Inferred(i, t) ==
               [compilation EXCEPT
                   !.tables[i].columns =
                       [k \in 1..Len(t.columns) |->
                           IF t.kind = "table" THEN Regular(t.columns[k])
                           ELSE IF t.kind = "calculatedTable" /\ t.calculatedTableDef.present
                           THEN Calculated(t.columns[k], t.calculatedTableDef.expression)
                           ELSE t.columns[k]],
                   !.log = Append(@, [table |-> i, step |-> "infer",
                                      expression |-> t.calculatedTableDef.expression]),
                   !.pc = "emit"]
       IN compilation' = Inferred(compilation.i, compilation.tables[compilation.i])
    /\ UNCHANGED <<generators, registry, objects, emission>>

\* As EmitTable, but a table whose emission raises is skipped and the loop
\* goes on with the next one
EmitTableSkipping ==
    /\ compilation.pc = "emit"
    /\ compilation' =
           [compilation EXCEPT
               !.error = <<"emit_table_tmdl() takes from 3 to 4 positional arguments but 5 were given">>,
               !.i = @ + 1, !.pc = "resolve"]
    /\ UNCHANGED <<generators, registry, objects, emission>>

\* emit_table_tmdl(tbl_dir, table, sources, transforms, dax_templates): a
\* call with more positional arguments than the function has parameters
\* raises TypeError before the function runs
EmitTable ==
    /\ compilation.pc = "emit"
    /\ LET Called(arguments, r) ==
               IF Len(arguments) > Len(emit_table_tmdl_parameters)
               THEN [compilation EXCEPT
                        !.pc = "done", !.outcome = "TypeError",
                        !.error = <<"emit_table_tmdl() takes from 3 to 4 positional arguments but 5 were given">>]
               ELSE IF r.error # NoError
               THEN [compilation EXCEPT !.pc = "done", !.outcome = "ValueError", !.error = r.error]
               ELSE [compilation EXCEPT !.files = Append(@, r.file),
                                        !.written = Append(@, "tables/" \o r.file.name),
                                        !.i = @ + 1, !.pc = "resolve"]
       IN compilation' = Called(<<"tbl_dir", "table", "sources", "transforms", "dax_templates">>,
                                emit_table_tmdl(compilation.tables[compilation.i], compilation.sources))
    /\ UNCHANGED <<generators, registry, objects, emission>>

\* The loop is over: emit_relationships_tmdl if the model has relationships,
\* the stub report and the project descriptor if asked for, and the return
Finish ==
    /\ compilation.pc = "resolve" /\ compilation.i > Len(compilation.tables)
    /\ compilation' =
           [compilation EXCEPT
               !.written = @ \o (IF compilation.relationships THEN <<"relationships.tmdl">> ELSE <<>>)
                             \o (IF compilation.stub_report
                                 THEN <<"definition.pbir", "Model.pbip">> ELSE <<>>),
               !.pc = "done", !.outcome = "returned"]
    /\ UNCHANGED <<generators, registry, objects, emission>>

CompilationSpec ==
    CompilationInit
        /\ [][EmitModelFiles \/ ResolveTemplate \/ InferProperties \/ EmitTable \/ Finish]_vars


(***************************************************************************)
(* mcode/source_resolver.py: parse_source_mcode on the let block of a      *)
(* source.  parsing holds the text given to it and, once it was called,    *)
(* the definitions and the final variable it returned.                     *)
(***************************************************************************)
\* The most bindings of a source's let block
MaxBindings == 3

ParseSourceMcode ==
    /\ ~parsing.called
    /\ LET Called(r) == [parsing EXCEPT !.called = TRUE, !.definitions = r.definitions,
                                        !.final_var = r.final_var]
       IN parsing' = Called(parse_source_mcode(parsing.mcode))
    /\ UNCHANGED <<partition, table, source, lines, seed_var, error, stage, op, result, mcode,
                   registry, objects, emission, compilation>>

\* parse_source_mcode is applied to let blocks of up to MaxBindings lines
\* that bind Source, Sheet, index or input (or are blank, the name ""),
\* every binding but the last ending with a comma, and that return Sheet or
\* Source
ParsingInit ==
    LET ind == <<" ", " ", " ", " ">>
        Line(names, i) ==
            IF names[i] = "" THEN <<>>
            ELSE ind \o <<names[i], " ", "=", " ", IF i = 1 THEN "1" ELSE "Source">>
                     \o (IF \E k \in (i + 1)..Len(names) : names[k] # "" THEN <<",">> ELSE <<>>)
        Block(names, final) ==
            join(<<"\n">>, << <<"let">> >> \o [i \in 1..Len(names) |-> Line(names, i)]
                               \o << <<"in">>, ind \o <<final>> >>) \o <<"\n">>
    IN /\ parsing \in
              { [mcode |-> Block(names, final), called |-> FALSE, definitions |-> <<>>,
                 final_var |-> NoneSeq] :
                    names \in { n \in SeqsUpTo({"Source", "Sheet", "index", "input", ""}, MaxBindings) :
                                  n # <<>> /\ n[1] = "Source" },
                    final \in {"Sheet", "Source"} }
       /\ partition = <<>> /\ table = <<>> /\ source = <<>>
       /\ lines = <<>> /\ seed_var = <<>> /\ error = <<>> /\ stage = 0 /\ op = ""
       /\ result = <<>> /\ mcode = <<>>
       /\ registry = <<>> /\ objects = <<>> /\ emission = <<>> /\ compilation = <<>>

ParsingSpec == ParsingInit /\ [][ParseSourceMcode]_vars



(***************************************************************************)
(* mcode/builder.py: the stages of one builder called in any order.  Every *)
(* stage returns self, so after add_source_connection a caller may chain   *)
(* any stage any number of times and call build() at any point; a call     *)
(* that raises ends the chain.  stage counts the calls, op is the last     *)
(* one, result the text the last build() returned.                         *)
(***************************************************************************)
\* The most calls made on one builder
MaxStageCalls == 4

CallStage ==
    /\ error = NoError /\ stage < MaxStageCalls
    /\ \E name \in {"add_source_connection", "add_navigation", "add_native_query",
                    "add_column_selection", "add_type_transformation", "add_custom_transforms"} :
           /\ stage = 0 => name = "add_source_connection"
           /\ Becomes(CASE name = "add_source_connection" ->
                               add_source_connection(Self, partition, source)
                        [] name = "add_navigation" -> add_navigation(Self, partition)
                        [] name = "add_native_query" -> add_native_query(Self, partition)
                        [] name = "add_column_selection" -> add_column_selection(Self, table)
                        [] name = "add_type_transformation" -> add_type_transformation(Self, table)
                        [] name = "add_custom_transforms" ->
                               add_custom_transforms(Self, partition, table))
           /\ op' = name
    /\ stage' = stage + 1
    /\ UNCHANGED <<others, inputs, result, mcode>>

CallBuild ==
    /\ error = NoError /\ stage > 0 /\ stage < MaxStageCalls
    /\ LET b == build(Self, partition)
       IN /\ Becomes(b)
          /\ result' = IF b.error = NoError THEN join(<<"\n">>, b.lines) ELSE result
    /\ op' = "build"
    /\ stage' = stage + 1
    /\ UNCHANGED <<others, inputs, mcode>>

\* The builders: with and without navigation and raw query, with step lists
\* of known names, an unknown name, an empty entry and a let-block snippet
StagesSpec ==
    InitOf(Partitions({NoNav, Nav("SALES")}, {NoneSeq, SampleQuery},
                      { <<>>, << <<"f">> >>, << <<"u">> >>, << <<>> >>,
                        << <<"f">>, <<"g">> >>, << <<"f">>, <<"u">> >> }),
           Tables({<<>>, Window(1, 1)}), {SfSales})
        /\ [][CallStage \/ CallBuild]_vars



(***************************************************************************)
(* Properties.  The text predicates below read the generated lines the way *)
(* a reader of the output does: the expected text is rebuilt from the      *)
(* inputs, never taken from a generator stage.                             *)
(***************************************************************************)
\* A top-level binding "  name = ..."
IsBinding(line) ==
    /\ Len(line) >= 5
    /\ line[1] = " " /\ line[2] = " " /\ IsWord(line[3]) /\ line[4] = " " /\ line[5] = "="
BinderOf(line) == line[3]
Binds(line, name) == IsBinding(line) /\ BinderOf(line) = name

\* The indices of the lines of ls that bind name
LinesBinding(ls, name) == { i \in 1..Len(ls) : Binds(ls[i], name) }

\* The message names the partition and the source
Names(msg, what) == \E i \in 1..Len(msg) : msg[i] = what

\* The partition needs a database scope
NeedsDatabase == partition.navigation.present \/ partition.nativeQuery # NoneSeq
\* The database the partition asks for, or the source's default
WantedDatabase ==
    IF partition.navigation.present /\ partition.navigation.database # ""
    THEN partition.navigation.database ELSE source.database

\* C10 as stated: build() fails with an error naming the partition exactly when
\* no seed has been established, and at build() the seed is unset only if
\* add_source_connection was never called.
C10_AsStated ==
    op = "build" =>
        /\ (error # NoError) <=> (seed_var = NoneSeq)
        /\ error # NoError => Names(error, partition.name) /\ result = NoneSeq
        /\ error = NoError => result # NoneSeq
        /\ seed_var = NoneSeq => stage = 0

\* C10 amended: build() fails with an error naming the partition exactly when
\* no seed has been established; at build() the seed is unset only if
\* add_source_connection was never called, or the partition has a navigation
\* target and add_navigation has not run, or it has a raw query and no
\* navigation target and add_native_query has not run.
C10_SeedUnsetOnlyBeforeItsStage ==
    op = "build" =>
        /\ (error # NoError) <=> (seed_var = NoneSeq)
        /\ error # NoError => Names(error, partition.name) /\ result = NoneSeq
        /\ error = NoError => result # NoneSeq
        /\ seed_var = NoneSeq =>
               \/ stage = 0
               \/ partition.navigation.present /\ stage < 2
               \/ ~partition.navigation.present /\ partition.nativeQuery # NoneSeq /\ stage < 3

\* build() called right after add_source_connection on a navigation partition
C10_Witness ==
    /\ op = "build" /\ stage = 1 /\ partition.navigation.present
    /\ seed_var = NoneSeq /\ Names(error, partition.name)

\* C4 as stated: a partition with a navigation target or a raw query, no
\* navigation.database and a source without database makes generation fail
\* with an error naming the partition and the source, and no text is
\* returned, in the builder chain and in generate_partition_mcode.
C4_NoDatabaseFails ==
    NeedsDatabase /\ WantedDatabase = "" =>
        /\ result = NoneSeq
        /\ stage >= 1 => Names(error, partition.name) /\ Names(error, source.key)
        /\ mcode.status # "idle" =>
               /\ mcode.status = "raised"
               /\ Names(mcode.error, partition.name)
               /\ MissingOf([i \in 1..Len(partition.custom_steps) |->
                                Concat(partition.custom_steps[i])]) = <<>>
                      => Names(mcode.error, source.key)

\* The source's default database is the one the navigation asks for
SameDatabase ==
    /\ partition.navigation.present
    /\ source.database # "" /\ partition.navigation.database = source.database

OpensWithCollection(ls, database) ==
    /\ Len(ls) >= 3
    /\ Binds(ls[2], "SourceColl")
    /\ ls[3] = <<" ", " ", "DB", " ", "=", " ", "SourceColl", "{[Name = ", "\"", database, "\"",
                 ", Kind = ", "\"", "Database", "\"", "]}[Data]", ",">>
    /\ LinesBinding(ls, "SourceColl") = {2} /\ LinesBinding(ls, "DB") = {3}

ClosedBy(text, seed) ==
    LET ls == split_lines(text)
        n == Len(ls)
    IN /\ n >= 3
       /\ { i \in 1..n : ls[i] # <<>> /\ ls[i][1] = "in" } = {n - 1}
       /\ ls[n - 1] = <<"in">>
       /\ ls[n] = <<" ", " ">> \o seed
       /\ rstrip(ls[n - 2]) # <<>>
       /\ rstrip(ls[n - 2])[Len(rstrip(ls[n - 2]))] # ","

\* The name the last top-level binding of the lines binds
LastBinder(ls) == BinderOf(ls[Max({ i \in 1..Len(ls) : IsBinding(ls[i]) })])

\* C2: for every partition variant and any number of custom steps the text
\* build() returns, and the text generate_partition_mcode returns, ends with
\* exactly one top-level "in" line followed by the seed name, and the binding
\* right before that "in" does not end with a comma.
C2_OneFinalIn ==
    /\ op = "build" /\ error = NoError => ClosedBy(result, seed_var)
    /\ mcode.status = "returned" =>
           /\ \E i \in 1..Len(mcode.lines) : IsBinding(mcode.lines[i])
           /\ ClosedBy(mcode.text, <<LastBinder(mcode.lines)>>)

\* Both generators closed a navigation partition that has two custom steps
C2_Witness ==
    /\ op = "build" /\ stage = 6 /\ error = NoError /\ mcode.status = "returned"
    /\ partition.navigation.present /\ Len(partition.custom_steps) = 2
    /\ table.column_policy = "keep_all"
    /\ ClosedBy(result, seed_var)

\* Scenario A: DimDate with Date (date) and Year (int64), select_only,
\* navigating to SALES.DIM.DATE on a warehouse-style source without database
ScenarioA ==
    /\ table = [name |-> "DimDate", column_policy |-> "select_only",
                columns |-> << [name |-> "Date", dataType |-> "date"],
                               [name |-> "Year", dataType |-> "int64"] >>]
    /\ partition = [name |-> "Full", nativeQuery |-> NoneSeq, custom_steps |-> <<>>,
                    navigation |-> [present |-> TRUE, database |-> "SALES",
                                    schema_ |-> "DIM", table |-> "DATE"]]
    /\ source.kind = "snowflake" /\ source.database = ""

ScenarioALines ==
    << <<"let">>,
       <<" ", " ", "SourceColl", " ", "=", " ", "Snowflake", ".", "Databases", "(",
         "\"", source.server, "\"">>,
       <<" ", " ", "DB", " ", "=", " ", "SourceColl", "{[Name = ", "\"", "SALES", "\"",
         ", Kind = ", "\"", "Database", "\"", "]}[Data]", ",">>,
       <<" ", " ", "SCH", " ", "=", " ", "DB", "{[Name = ", "\"", "DIM", "\"",
         ", Kind = ", "\"", "Schema", "\"", "]}[Data]", ",">>,
       <<" ", " ", "TBL", " ", "=", " ", "SCH", "{[Name = ", "\"", "DATE", "\"",
         ", Kind = ", "\"", "Table", "\"", "]}[Data]", ",">>,
       <<" ", " ", "Selected", " ", "=", " ", "Table", ".", "SelectColumns", "(", "TBL", ",", " ",
         "{", "\"", "Date", "\"", ",", " ", "\"", "Year", "\"", "}", ",", " ",
         "MissingField", ".", "UseNull", ")", ",">>,
       <<" ", " ", "Typed", " ", "=", " ", "Table", ".", "TransformColumnTypes", "(", "Selected",
         ",", " ", "{", "{", "\"", "Date", "\"", ",", " ", "Date.Type", "}", ",", " ",
         "{", "\"", "Year", "\"", ",", " ", "Int64.Type", "}", "}", ")">>,
       <<"in">>,
       <<" ", " ", "Typed">> >>

\* The lines are those of scenario A; the second one is the call that opens
\* the connection to the server, with the arguments the source sets
IsScenarioA(ls) ==
    /\ Len(ls) = Len(ScenarioALines)
    /\ \A i \in 1..Len(ls) : i # 2 => ls[i] = ScenarioALines[i]
    /\ Len(ls[2]) >= 15
    /\ SubSeq(ls[2], 1, 13) = ScenarioALines[2]
    /\ SubSeq(ls[2], Len(ls[2]) - 1, Len(ls[2])) = <<")", ",">>

\* C5: in scenario A the bindings are exactly SourceColl (the connection
\* call), DB (SourceColl filtered to "SALES"), SCH (DB filtered to schema
\* "DIM"), TBL (SCH filtered to table "DATE"), Selected (TBL projected on
\* "Date" and "Year") and Typed (Selected with Date as Date.Type and Year as
\* Int64.Type), in this order, and the in clause returns Typed.
C5_ScenarioA ==
    ScenarioA =>
        /\ op = "build" /\ stage = 6 => error = NoError /\ IsScenarioA(lines)
        /\ mcode.status # "idle" => mcode.status = "returned" /\ IsScenarioA(mcode.lines)

C5_Witness ==
    /\ ScenarioA /\ source.warehouse = "" /\ op = "build" /\ stage = 6
    /\ result # NoneSeq /\ mcode.text = result

\* '"a", "b"': the names of the columns from the i-th on
RECURSIVE NameList(_, _)
NameList(cols, i) ==
    IF i > Len(cols) THEN <<>>
    ELSE <<"\"", cols[i].name, "\"">> \o (IF i < Len(cols) THEN <<",", " ">> ELSE <<>>)
             \o NameList(cols, i + 1)

SelectedLine(seed, cols) ==
    <<" ", " ", "Selected", " ", "=", " ", "Table", ".", "SelectColumns", "(">> \o seed
        \o <<",", " ", "{">> \o NameList(cols, 1)
        \o <<"}", ",", " ", "MissingField", ".", "UseNull", ")", ",">>

SelectionApplies == table.column_policy = "select_only" /\ table.columns # <<>>

\* What generate_partition_mcode returned holds one Selected binding, over the
\* name bound just before it, which the Typed binding after it reads; or none
SelectedIn(ls) ==
    IF SelectionApplies
    THEN \E i \in 3..(Len(ls) - 1) :
             /\ LinesBinding(ls, "Selected") = {i}
             /\ IsBinding(ls[i - 1])
             /\ ls[i] = SelectedLine(<<BinderOf(ls[i - 1])>>, table.columns)
             /\ Binds(ls[i + 1], "Typed") /\ ls[i + 1][11] = "Selected"
    ELSE LinesBinding(ls, "Selected") = {}

\* C7: the column-selection stage emits a Selected binding if and only if the
\* policy is select_only and a column is declared; the binding reads the
\* current seed, names the declared columns in declaration order with
\* MissingField.UseNull, and the seed becomes Selected; otherwise the lines
\* and the seed stay as they are.
C7_SelectedIffSelectOnly ==
    [][ /\ AddColumnSelection =>
              IF SelectionApplies
              THEN /\ lines' = Append(lines, SelectedLine(seed_var, table.columns))
                   /\ seed_var' = <<"Selected">>
              ELSE lines' = lines /\ seed_var' = seed_var
        /\ GeneratePartitionMcode /\ mcode'.status = "returned" => SelectedIn(mcode'.lines)
      ]_vars

C7_Witness ==
    /\ op = "add_column_selection" /\ SelectionApplies /\ Len(table.columns) = 2
    /\ seed_var = <<"Selected">> /\ mcode.status = "returned"
    /\ LinesBinding(lines, "Selected") # {}

\* The fixed table of types
TypeFor(dataType) ==
    CASE dataType = "int64" -> "Int64.Type"
      [] dataType \in {"decimal", "double"} -> "Number.Type"
      [] dataType = "boolean" -> "Logical.Type"
      [] dataType = "string" -> "Text.Type"
      [] dataType = "date" -> "Date.Type"
      [] dataType = "dateTime" -> "DateTime.Type"
      [] dataType = "time" -> "Time.Type"
      [] dataType = "currency" -> "Currency.Type"
      [] OTHER -> "Any.Type"

\* '{"a", A.Type}, {"b", B.Type}': the columns from the i-th on with their types
RECURSIVE TypePairs(_, _)
TypePairs(cols, i) ==
    IF i > Len(cols) THEN <<>>
    ELSE <<"{", "\"", cols[i].name, "\"", ",", " ", TypeFor(cols[i].dataType), "}">>
             \o (IF i < Len(cols) THEN <<",", " ">> ELSE <<>>) \o TypePairs(cols, i + 1)

TypedCall(seed, cols) ==
    <<" ", " ", "Typed", " ", "=", " ", "Table", ".", "TransformColumnTypes", "(">> \o seed
        \o <<",", " ", "{">> \o TypePairs(cols, 1) \o <<"}", ")">>

\* What generate_partition_mcode returned holds one Typed binding, over the
\* name bound just before it, and Typed is what is returned when no custom
\* step follows; or none
TypedIn(ls) ==
    IF table.columns # <<>>
    THEN \E i \in 3..Len(ls) :
             /\ LinesBinding(ls, "Typed") = {i}
             /\ IsBinding(ls[i - 1])
             /\ rstrip_commas(ls[i]) = TypedCall(<<BinderOf(ls[i - 1])>>, table.columns)
             /\ partition.custom_steps = <<>> => ls[Len(ls)] = <<" ", " ", "Typed">>
    ELSE LinesBinding(ls, "Typed") = {}

\* C8: the type-coercion stage emits a Typed binding if and only if a column
\* is declared; the binding reads the current seed and pairs every declared
\* column, in declaration order, with its type of the fixed table (Any.Type
\* for variant and for any type the table does not hold), and the seed becomes
\* Typed.
C8_TypedIffColumns ==
    [][ /\ AddTypeTransformation =>
              IF table.columns # <<>>
              THEN /\ lines' = Append(lines, TypedCall(seed_var, table.columns) \o <<",">>)
                   /\ seed_var' = <<"Typed">>
              ELSE lines' = lines /\ seed_var' = seed_var
        /\ GeneratePartitionMcode /\ mcode'.status = "returned" => TypedIn(mcode'.lines)
      ]_vars

\* Typed was emitted for a double column next to one of a type that the table
\* does not hold
C8_Witness ==
    /\ op = "add_type_transformation" /\ seed_var = <<"Typed">> /\ mcode.status = "returned"
    /\ Len(table.columns) = 2
    /\ \E i \in 1..Len(table.columns) : table.columns[i].dataType = "geography"
    /\ LinesBinding(lines, "Typed") # {}

\* The names of a step list that the mapping does not hold
IsUnknown(name) == name \notin DOMAIN Transforms
UnknownAmong(names) == SelectSeq(names, IsUnknown)

\* The names a message lists after its fifth token
IsListedName(tok) == tok \notin {"[", "]", "'", ",", " "}
ListedIn(msg) == SelectSeq(SubSeq(msg, 6, Len(msg)), IsListedName)
SaysUnknownTransforms(msg) ==
    /\ Len(msg) >= 5
    /\ SubSeq(msg, 1, 5) = <<"Partition '", partition.name, "' in table '", table.name,
                             "' references unknown transforms: ">>

\* The names add_custom_transforms looks up (the name before an argument
\* list), and the names generate_partition_mcode looks up (the whole entries)
NamesCalled == [i \in 1..Len(partition.custom_steps) |-> partition.custom_steps[i][1]]
NamesWritten == [i \in 1..Len(partition.custom_steps) |-> Concat(partition.custom_steps[i])]

\* C9: when custom_steps name transforms that the mapping does not hold, the
\* transform stage of the builder and generate_partition_mcode fail with one
\* error that lists every missing name, in the order of custom_steps.
C9_AllMissingListed ==
    /\ op = "add_custom_transforms" /\ UnknownAmong(NamesCalled) # <<>> =>
           /\ SaysUnknownTransforms(error)
           /\ ListedIn(error) = UnknownAmong(NamesCalled)
           /\ result = NoneSeq
    /\ mcode.status # "idle" /\ UnknownAmong(NamesWritten) # <<>> =>
           /\ mcode.status = "raised"
           /\ SaysUnknownTransforms(mcode.error)
           /\ ListedIn(mcode.error) = UnknownAmong(NamesWritten)

C9_Witness ==
    /\ op = "add_custom_transforms" /\ partition.custom_steps = << <<"u">>, <<"w">> >>
    /\ ListedIn(error) = <<"u", "w">> /\ ListedIn(mcode.error) = <<"u", "w">>

\* Where the string literal whose text starts at index i of the line ends: the
\* index of the first double quote that no backslash escapes, or 0
RECURSIVE LiteralEnd(_, _)
LiteralEnd(line, i) ==
    IF i > Len(line) THEN 0
    ELSE IF line[i] = "\\" THEN LiteralEnd(line, i + 2)
    ELSE IF line[i] = "\"" THEN i
    ELSE LiteralEnd(line, i + 1)

\* The lines hold one Result binding: Value.NativeQuery over DB and a literal
\* that no character of the query ends before the quote that closes it; DB is
\* bound before it, Selected and Typed after it
ResultIn(ls) ==
    \E r \in 1..Len(ls) :
        /\ LinesBinding(ls, "Result") = {r}
        /\ Len(ls[r]) >= 15
        /\ SubSeq(ls[r], 7, 14) = <<"Value", ".", "NativeQuery", "(", "DB", ",", " ", "\"">>
        /\ LET closing == Max({ i \in 1..Len(ls[r]) : ls[r][i] = "\"" })
               end == LiteralEnd(ls[r], 15)
           IN ~(end # 0 /\ end < closing)
        /\ \E d \in LinesBinding(ls, "DB") : d < r
        /\ \A k \in LinesBinding(ls, "Selected") \cup LinesBinding(ls, "Typed") : r < k

\* C6 as stated: for a nativeQuery partition every double quote of the query
\* is escaped in the emitted literal, so that no character of the query ends
\* the literal early; Result is evaluated against DB, DB is bound before
\* Result, Result before Selected and Typed, and the seed after the stage is
\* Result.
C6_QueryLiteralEscaped ==
    partition.nativeQuery # NoneSeq /\ ~partition.navigation.present =>
        /\ stage >= 3 => ResultIn(lines)
        /\ op = "add_native_query" => seed_var = <<"Result">>
        /\ mcode.status = "returned" => ResultIn(mcode.lines)

\* A snippet that is one expression, without let block and template syntax
IsPlainSnippet(step) ==
    /\ Len(step) = 1 /\ step[1] \in DOMAIN Transforms
    /\ \A i \in 1..Len(Transforms[step[1]]) :
           Transforms[step[1]][i] \notin {"let", "{{ input_var }}"}

\* The parameter a snippet declares and the body after its signature
ParamOf(name) == Transforms[name][2]
BodyOf(name) ==
    LET code == Transforms[name]
        arrow == Min({ i \in 1..Len(code) : code[i] = "=>" })
    IN SubSeq(code, arrow + 1, Len(code))

\* A text without its white space
NotSpace(tok) == tok \notin {" ", "\n", "\t"}
Squash(text) == SelectSeq(text, NotSpace)

\* body with every occurrence of the identifier param replaced by name
Substituted(body, param, name) ==
    [i \in 1..Len(body) |-> IF body[i] = param THEN name ELSE body[i]]

\* The right-hand side of a binding, without white space and closing comma
RhsOf(line) == rstrip_commas(Squash(SubSeq(line, 6, Len(line))))

\* The lines bind a's body over the name bound just before it, later b's body
\* over the name a's body was bound to, and return the name b's body was bound to
ChainIn(ls, a, b) ==
    \E i, j \in 2..Len(ls) :
        /\ i < j
        /\ IsBinding(ls[i - 1]) /\ IsBinding(ls[i]) /\ IsBinding(ls[j])
        /\ RhsOf(ls[i]) = Squash(Substituted(BodyOf(a), ParamOf(a), BinderOf(ls[i - 1])))
        /\ RhsOf(ls[j]) = Squash(Substituted(BodyOf(b), ParamOf(b), BinderOf(ls[i])))
        /\ ls[Len(ls)] = <<" ", " ", BinderOf(ls[j])>>

TwoPlainSteps ==
    /\ Len(partition.custom_steps) = 2
    /\ IsPlainSnippet(partition.custom_steps[1]) /\ IsPlainSnippet(partition.custom_steps[2])

\* C1 as stated: with custom_steps [f, g] and seed X the code the builder
\* builds, and the code generate_partition_mcode returns, binds f's body with
\* f's parameter replaced by X, then g's body with g's parameter replaced by
\* the name of f's result, and the in clause names g's result.
C1_StepsChained ==
    TwoPlainSteps =>
        /\ op = "build" /\ stage = 6 /\ error = NoError =>
               ChainIn(lines, partition.custom_steps[1][1], partition.custom_steps[2][1])
        /\ mcode.status = "returned" =>
               ChainIn(mcode.lines, partition.custom_steps[1][1], partition.custom_steps[2][1])

\* The steps of the partition are names of the transform mapping
AllStepsKnown ==
    /\ partition.custom_steps # <<>>
    /\ \A i \in 1..Len(partition.custom_steps) :
           /\ Len(partition.custom_steps[i]) = 1
           /\ ~IsUnknown(partition.custom_steps[i][1])

\* f"__{step}_{idx}"
StepVar(i) == "__" \o partition.custom_steps[i][1] \o "_" \o ToString(i)

\* C17 as stated: for custom steps s1..sn (n >= 1) that are all in the
\* transform mapping, the lines generate_partition_mcode returns bind the
\* result of step i under __<si>_<i>, and the final in clause returns
\* __<sn>_<n>, whatever the shape of the snippet bodies.
C17_StepVariables ==
    AllStepsKnown /\ mcode.status = "returned" =>
        /\ \A i \in 1..Len(partition.custom_steps) : LinesBinding(mcode.lines, StepVar(i)) # {}
        /\ mcode.lines[Len(mcode.lines)] = <<" ", " ", StepVar(Len(partition.custom_steps))>>

\* The body with the parameter replaced where it is a complete identifier:
\* not where it is a part of a dotted name
SubstitutedWhole(body, param, name) ==
    [i \in 1..Len(body) |->
        IF body[i] = param /\ Tok(body, i + 1) # "." /\ Tok(body, i - 1) # "."
        THEN name ELSE body[i]]

\* A single step whose snippet is one expression
OnePlainStep == Len(partition.custom_steps) = 1 /\ IsPlainSnippet(partition.custom_steps[1])

\* C20 as stated: where generate_partition_mcode replaces the parameter of a
\* snippet by the current seed, only the occurrences that are a complete
\* identifier are replaced; the parameter name inside a longer identifier
\* (t inside Table, Table inside Table.Distinct) is left as it is.
C20_WholeIdentifiersOnly ==
    OnePlainStep /\ mcode.status = "returned" =>
        \E i \in 2..Len(mcode.lines) :
            /\ Binds(mcode.lines[i], StepVar(1)) /\ IsBinding(mcode.lines[i - 1])
            /\ RhsOf(mcode.lines[i])
                 = Squash(SubstitutedWhole(BodyOf(partition.custom_steps[1][1]),
                                           ParamOf(partition.custom_steps[1][1]),
                                           BinderOf(mcode.lines[i - 1])))


\* The files of directory d that a loader of extension ext files under name
FilesNamed(d, ext, name) ==
    { k \in 1..Len(d.files) : /\ d.files[k].name[Len(d.files[k].name)] = ext
                              /\ canonical_name(d.files[k].name, ext) = name }

\* The directories of the list that hold a file for name (a directory that
\* does not exist holds none)
Holders(ds, ext, name) == { i \in 1..Len(ds) : ds[i].exists /\ FilesNamed(ds[i], ext, name) # {} }

\* C11: for any ordered list of directories, the mapping returned by
\* load_transforms and by load_dax_templates holds, for every canonical name
\* (so for every name present in more than one directory), the body of a
\* file of that name in the directory listed latest among those holding the
\* name, and every call on the same list returns the identical mapping.
C11_LaterDirectoryWins ==
    LET Wins(call, ds, ext) ==
            call.status = "returned" =>
                \A name \in DOMAIN call.merged :
                    /\ Holders(ds, ext, name) # {}
                    /\ \E k \in FilesNamed(ds[Max(Holders(ds, ext, name))], ext, name) :
                          call.merged[name] =
                              IF ext = ".dax"
                              THEN strip(lstrip_bom(ds[Max(Holders(ds, ext, name))].files[k].text))
                              ELSE _normalize_transform(
                                       lstrip_bom(ds[Max(Holders(ds, ext, name))].files[k].text))
        Every(calls, ext) ==
            \A c \in 1..Len(calls) :
                /\ Wins(calls[c], registry.dirs, ext)
                /\ calls[c] = calls[1]
                /\ calls[c].status = "returned" =>
                       \A i \in 1..Len(registry.dirs) :
                           \A k \in 1..Len(registry.dirs[i].files) :
                               registry.dirs[i].files[k].name[Len(registry.dirs[i].files[k].name)] = ext
                                   => canonical_name(registry.dirs[i].files[k].name, ext)
                                          \in DOMAIN calls[c].merged
    IN Every(registry.transforms_calls, ".m.j2") /\ Every(registry.dax_calls, ".dax")

\* Both loaders were called twice on a list in which two directories hold
\* different bodies under one snippet name and under one template name
C11_Witness ==
    LET Twice(calls, ext) ==
            /\ Len(calls) = MaxCalls
            /\ calls[1].status = "returned"
            /\ \E name \in DOMAIN calls[1].merged :
                   \E i, j \in Holders(registry.dirs, ext, name) :
                       /\ i < j
                       /\ \A k \in FilesNamed(registry.dirs[j], ext, name) :
                              \A l \in FilesNamed(registry.dirs[i], ext, name) :
                                  registry.dirs[i].files[l].text # registry.dirs[j].files[k].text
    IN Twice(registry.transforms_calls, ".m.j2") /\ Twice(registry.dax_calls, ".dax")


\* The text begins with an accepted signature: "(name as table) as table"
\* followed by "=>" or by a line break before a let block, or
\* "(name as <type>) as function"
AcceptedSignature(text) ==
    LET Head7(w, type, returns) ==
            /\ Len(w) >= 7
            /\ w[1] = "(" /\ IsWord(w[2]) /\ w[2] \notin Digits /\ lower(w[3]) = "as"
            /\ (type = "" \/ lower(w[4]) = type) /\ IsWord(w[4])
            /\ w[5] = ")" /\ lower(w[6]) = "as" /\ lower(w[7]) = returns
        LineBreakBefore(p) == p # {} /\ \E i \in 1..Min(p) : text[i] = "\n"
        Begins(w) ==
            \/ /\ Head7(w, "table", "table")
               /\ Len(w) >= 8
               /\ \/ w[8] = "=>"
                  \/ w[8] = "let" /\ LineBreakBefore({ i \in 1..Len(text) : text[i] = "let" })
            \/ Head7(w, "", "function")
    IN Begins(Squash(text))

\* C12: load_transforms accepts a snippet if and only if its text begins
\* with an accepted signature: when every snippet file of the listed
\* directories does, the load returns a mapping holding every one of their
\* names; otherwise the load fails, the files that do not are not in any
\* mapping, and the error names one of them.
C12_AcceptedSignatures ==
    LET Files(ds) ==
            { <<i, k>> \in (1..Len(ds)) \X (1..Max({0} \cup { Len(ds[j].files) : j \in 1..Len(ds) })) :
                /\ k <= Len(ds[i].files)
                /\ ds[i].files[k].name[Len(ds[i].files[k].name)] = ".m.j2" }
        Bad(ds) ==
            { f \in Files(ds) : ~AcceptedSignature(lstrip_bom(ds[f[1]].files[f[2]].text)) }
        Settled(call, ds) ==
            IF Bad(ds) = {}
            THEN /\ call.status = "returned"
                 /\ \A f \in Files(ds) :
                        canonical_name(ds[f[1]].files[f[2]].name, ".m.j2") \in DOMAIN call.merged
            ELSE /\ call.status = "raised"
                 /\ \E f \in Bad(ds) :
                        \E n \in 1..Len(call.error) :
                            SubSeq(call.error, 1, n) = <<ds[f[1]].path, "/">> \o ds[f[1]].files[f[2]].name
    IN \A c \in 1..Len(registry.transforms_calls) :
           Settled(registry.transforms_calls[c], registry.dirs)


\* The items of base_measures that reach the expansion (in the list form a
\* later item of the same function takes the place of an earlier one), and
\* whether one of them names a column
Contributes(base_measures) ==
    \E i \in 1..Len(base_measures.items) :
        /\ \/ base_measures.form = "dict"
           \/ \A j \in (i + 1)..Len(base_measures.items) :
                  base_measures.items[j].agg_func # base_measures.items[i].agg_func
        /\ \E r \in 1..Len(base_measures.items[i].refs) :
               base_measures.items[i].refs[r].column # ""

C14_ExactlyOneMode ==
    LET Modes(p) ==
            (IF p.navigation.present THEN 1 ELSE 0) + (IF p.nativeQuery # "" THEN 1 ELSE 0)
                + (IF p.mode = "directLake" THEN 1 ELSE 0)
        Fits(p) ==
            IF p.mode = "directLake"
            THEN /\ p.entityName # "" /\ p.schemaName # "" /\ p.expressionSource # ""
                 /\ ~p.navigation.present /\ p.nativeQuery = ""
            ELSE /\ p.use # ""
                 /\ p.entityName = "" /\ p.schemaName = "" /\ p.expressionSource = ""
    IN objects.cls = "Partition" =>
           ((objects.error = NoError) <=> (Modes(objects.fields) = 1 /\ Fits(objects.fields)))

\* The references of base_measures that name a column, in the order of the
\* input: <<item, reference>>
NamedRefs(base_measures) ==
    { <<i, r>> \in (1..MaxItems) \X (1..MaxRefs) :
        /\ i <= Len(base_measures.items) /\ r <= Len(base_measures.items[i].refs)
        /\ base_measures.items[i].refs[r].column # "" }

\* The measure expected of a function and a reference
ExpectedMeasure(agg_func, ref) ==
    [name |-> agg_func \o "_" \o ref.column,
     expression |->
         (IF lower(agg_func) \in {"avg", "average"} THEN "AVERAGE" ELSE upper(agg_func))
             \o "("
             \o (IF ref.table # <<>> THEN "'" \o Concat(ref.table) \o "'" ELSE "")
             \o "[" \o ref.column \o "]" \o ")"]

\* C15: the measures of a constructed Table are one measure for every
\* (function, column) pair of base_measures, in input order, named
\* {function}_{column}, its expression FUNCTION('table'[column]) or
\* FUNCTION([column]), followed by the authored measures, all of them kept.
C15_BaseMeasuresExpanded ==
    LET Before(a, b) == a[1] < b[1] \/ (a[1] = b[1] /\ a[2] < b[2])
        Rank(S, a) == Cardinality({ b \in S : Before(b, a) }) + 1
        Expanded(base, given, measures) ==
            /\ Len(measures) = Cardinality(NamedRefs(base)) + Len(given)
            /\ \A a \in NamedRefs(base) :
                   measures[Rank(NamedRefs(base), a)]
                       = ExpectedMeasure(base.items[a[1]].agg_func, base.items[a[1]].refs[a[2]])
            /\ \A m \in 1..Len(given) : measures[Cardinality(NamedRefs(base)) + m] = given[m]
    IN (objects.cls = "Table" /\ objects.error = NoError) =>
           Expanded(objects.fields.base_measures, objects.fields.measures, objects.value.measures)

\* C16: a Table given base_measures in the list form has the measures of
\* the Table given the same items in the mapping form whenever the items
\* can be written as a mapping, and in every case a measure for every
\* reference of every item of the list.
C16_ListAsMapping ==
    LET AsMapping(values) == [values EXCEPT !.base_measures.form = "dict"]
        Distinct(items) ==
            \A i, j \in 1..Len(items) : items[i].agg_func = items[j].agg_func => i = j
        Contributed(base, measures) ==
            \A a \in NamedRefs(base) :
                \E k \in 1..Len(measures) :
                    measures[k].name
                        = base.items[a[1]].agg_func \o "_" \o base.items[a[1]].refs[a[2]].column
    IN (objects.cls = "Table" /\ objects.fields.base_measures.form = "list") =>
           /\ Distinct(objects.fields.base_measures.items) =>
                  objects.value.measures
                      = populate_partitions_and_base_measures(AsMapping(objects.fields)).measures
           /\ Contributed(objects.fields.base_measures, objects.value.measures)


\* C18: emit_table_tmdl sends at most one partition to the generator, the
\* table's first one and only when it is not a directLake partition, and it
\* does so whenever the table has such a first partition; the table file is
\* written exactly when the generator did not raise, with the generated code
\* or, when the generator did not run, with none.
C18_FirstPartitionOnly ==
    emission.done =>
        /\ Len(emission.generated) <= 1
        /\ \A i \in 1..Len(emission.generated) :
               /\ emission.generated[i] = emission.table.partitions[1]
               /\ emission.generated[i].mode # "directLake"
        /\ (emission.generated # <<>>) <=>
               (emission.table.partitions # <<>> /\ emission.table.partitions[1].mode # "directLake")
        /\ emission.file.written <=> (emission.error = NoError)
        /\ emission.generated = <<>> =>
               (emission.file.written /\ emission.file.partition_mcode = NoneSeq)
        /\ (emission.generated # <<>> /\ emission.file.written) =>
               emission.file.partition_mcode # NoneSeq

\* A table of two different partitions, the first one not directLake, was
\* emitted and its file holds generated code
C18_Witness ==
    /\ emission.done /\ Len(emission.table.partitions) = MaxParts
    /\ emission.table.partitions[1] # emission.table.partitions[2]
    /\ emission.generated = <<emission.table.partitions[1]>>
    /\ emission.file.written /\ emission.file.partition_mcode # NoneSeq

\* C18 as stated: at most one partition, the first one and never a
\* directLake one, reaches the generator, and a table file is written in
\* every case.
C18_AsStated ==
    emission.done =>
        /\ Len(emission.generated) <= 1
        /\ \A i \in 1..Len(emission.generated) :
               /\ emission.generated[i] = emission.table.partitions[1]
               /\ emission.generated[i].mode # "directLake"
        /\ emission.file.written


\* C19: for every calculated table of the model that references a formula
\* template: the inference reads the template's body; once compile_project
\* is over and no other table has stopped it, the table's file is written
\* and holds the body; when the name is not among the loaded templates,
\* compile_project fails with a ValueError naming the template and the
\* table, and no file of that table is written.
C19_TemplateResolved ==
    LET Refers(t) ==
            t.kind = "calculatedTable" /\ t.calculatedTableDef.present
                /\ t.calculatedTableDef.template # ""
        Known(t) == t.calculatedTableDef.template \in DOMAIN compilation.dax_templates
        Body(t) == compilation.dax_templates[t.calculatedTableDef.template]
        FilesOf(t) == { f \in 1..Len(compilation.files) : compilation.files[f].table.name = t.name }
        NoneMissing ==
            \A j \in 1..Len(compilation.tables) :
                Refers(compilation.tables[j]) => Known(compilation.tables[j])
        Settled(k, t) ==
            /\ \A l \in 1..Len(compilation.log) :
                   (compilation.log[l].table = k /\ compilation.log[l].step = "infer")
                       => (Known(t) /\ compilation.log[l].expression = Body(t))
            /\ (Known(t) /\ NoneMissing /\ compilation.pc = "done") =>
                   /\ compilation.outcome = "returned"
                   /\ FilesOf(t) # {}
                   /\ \A f \in FilesOf(t) :
                          compilation.files[f].table.calculatedTableDef.expression = Body(t)
            /\ (~Known(t) /\ (compilation.i > k
                                \/ (compilation.i = k /\ compilation.pc \notin {"start", "resolve"}))) =>
                   /\ compilation.outcome = "ValueError"
                   /\ \E a, b \in 1..Len(compilation.error) :
                          /\ compilation.error[a] = t.calculatedTableDef.template
                          /\ compilation.error[b] = t.name
                   /\ FilesOf(t) = {}
    IN \A k \in 1..Len(compilation.tables) :
           Refers(compilation.tables[k]) => Settled(k, compilation.tables[k])


\* The snippet files of the listed directories whose text, read as the loader
\* reads it, fails the signature check: pairs of directory and file numbers
FailingFiles(ds) ==
    { f \in (1..Len(ds)) \X (1..Max({0} \cup { Len(ds[j].files) : j \in 1..Len(ds) })) :
        /\ f[2] <= Len(ds[f[1]].files)
        /\ ds[f[1]].files[f[2]].name[Len(ds[f[1]].files[f[2]].name)] = ".m.j2"
        /\ ~SIG(_normalize_transform(lstrip_bom(ds[f[1]].files[f[2]].text))) }

\* C30: load_transforms fails when any snippet file in any listed directory
\* fails the signature check, also when a directory listed later (of higher
\* precedence) supplies the same canonical name; a call that fails returns
\* no mapping.
C30_AnyFailingFileFails ==
    \A c \in 1..Len(registry.transforms_calls) :
        /\ FailingFiles(registry.dirs) # {} => registry.transforms_calls[c].status = "raised"
        /\ registry.transforms_calls[c].status = "raised" =>
               /\ registry.transforms_calls[c].merged = <<>>
               /\ registry.transforms_calls[c].error # NoError

\* load_transforms was called on a list in which every failing file has its
\* name supplied by a directory listed later, with an accepted signature
C30_Witness ==
    /\ registry.transforms_calls # <<>>
    /\ registry.transforms_calls[1].status = "raised"
    /\ FailingFiles(registry.dirs) # {}
    /\ \A f \in FailingFiles(registry.dirs) :
           \E j \in Holders(registry.dirs, ".m.j2",
                            canonical_name(registry.dirs[f[1]].files[f[2]].name, ".m.j2")) :
               /\ j > f[1]
               /\ \A k \in FilesNamed(registry.dirs[j], ".m.j2",
                                      canonical_name(registry.dirs[f[1]].files[f[2]].name, ".m.j2")) :
                      <<j, k>> \notin FailingFiles(registry.dirs)


\* C21: in every generated partition expression no two bindings of the
\* top-level let block have the same variable name, for any list of custom
\* steps (the same snippet twice, snippets with let-block bodies): in the
\* lines generate_partition_mcode returned and in the lines of the builder.
C21_DistinctBindingNames ==
    LET Distinct(ls) ==
            \A i, j \in 1..Len(ls) :
                IsBinding(ls[i]) /\ IsBinding(ls[j]) /\ BinderOf(ls[i]) = BinderOf(ls[j]) => i = j
    IN /\ mcode.status = "returned" => Distinct(mcode.lines)
       /\ error = NoError => Distinct(lines)


\* C24: for a simple-source partition add_source_connection appends every
\* binding of the source's let block, in order, each ending with exactly
\* one comma, and the seed is the expression after the block's terminal
\* "in"; parse_source_mcode returns as definitions exactly the non-empty
\* lines between "let" and that terminal "in" (the last line that is "in"),
\* and as final variable the expression after it, also when the name of a
\* binding begins with the letters "in".
C24_DefinitionsBetweenLetAndIn ==
    LET NonEmpty(line) == line # <<>>
        Between(ls, first, last) ==
            SelectSeq([i \in 1..(last - first - 1) |-> strip(ls[first + i])], NonEmpty)
        Expected(ls) ==
            [definitions |->
                 Between(ls, Min({ i \in 1..Len(ls) : strip(ls[i]) = <<"let">> }),
                         Max({ i \in 1..Len(ls) : strip(ls[i]) = <<"in">> })),
             final_var |-> strip(ls[Max({ i \in 1..Len(ls) : strip(ls[i]) = <<"in">> }) + 1])]
    IN parsing.called =>
           /\ parsing.definitions = Expected(split_lines(strip(parsing.mcode))).definitions
           /\ parsing.final_var = Expected(split_lines(strip(parsing.mcode))).final_var


\* The variables the top-level bindings of the builder read
StageVariables ==
    {"SourceColl", "DB", "SCH", "TBL", "Result", "Selected", "Typed", "Source", "Sheet", "Database"}

\* C25: in the text of the builder stages called in the documented order,
\* every variable a top-level binding reads (SourceColl, DB, SCH, TBL,
\* Result, Selected, Typed, the seed) is bound by an earlier line of the let
\* block, the variable of the "in" clause is bound too, and no binding and
\* no "in" clause is written with an unset seed (None).
C25_ReadsBoundEarlier ==
    LET BoundBefore(ls, i, name) == \E k \in 1..(i - 1) : Binds(ls[k], name)
        \* the names outside string literals
        Reads(line) == { line[n] : n \in { m \in 6..Len(line) : line[m - 1] # "\"" } }
                           \cap StageVariables
        Sound(ls) ==
            \A i \in 1..Len(ls) :
                /\ IsBinding(ls[i]) => \A name \in Reads(ls[i]) : BoundBefore(ls, i, name)
                /\ \A n \in 1..Len(ls[i]) : ls[i][n] # "None"
                /\ (i > 1 /\ ls[i - 1] = <<"in">>) => BoundBefore(ls, i, ls[i][3])
    IN error = NoError => Sound(lines)


\* The names bound by the top-level bindings among the lines, in order
RECURSIVE BoundNames(_)
BoundNames(ls) ==
    IF ls = <<>> THEN <<>>
    ELSE (IF IsBinding(Head(ls)) THEN <<BinderOf(Head(ls))>> ELSE <<>>) \o BoundNames(Tail(ls))

\* C26: for every partition without custom steps, generate_partition_mcode
\* and the builder stages called in the documented order agree: either both
\* fail or both succeed, and on success they bind the same variable names in
\* the same order and return the same variable in the "in" clause (also for
\* partitions with both navigation and nativeQuery, and for navigation
\* partitions for which no database can be determined).
C26_GeneratorAndBuilderAgree ==
    LET Failed == error # NoError /\ (op # "build" \/ stage = 6)
        Succeeded == error = NoError /\ op = "build" /\ stage = 6
    IN partition.custom_steps = <<>> =>
           /\ Failed => mcode.status = "raised"
           /\ Succeeded =>
                  /\ mcode.status = "returned"
                  /\ BoundNames(lines) = BoundNames(mcode.lines)
                  /\ lines[Len(lines)] = mcode.lines[Len(mcode.lines)]


\* C27: after any sequence of builder stage calls that starts with
\* add_source_connection (stages in any order, any stage more than once),
\* the text the first build() returns has a comma at the end of every
\* top-level binding except the last, and none at the end of the last.
C27_CommasBetweenBindings ==
    LET Ins == { i \in 1..Len(lines) : lines[i] = <<"in">> }
        Top == { i \in 1..Len(lines) : IsBinding(lines[i]) /\ \A k \in Ins : i < k }
    IN (op = "build" /\ error = NoError /\ Cardinality(Ins) = 1) =>
           \A i \in Top : endswith_comma(strip(lines[i])) <=> i # Max(Top)

\* C28: calling build() a second time on the same builder, with no stage
\* call in between, returns the same text as the first call.
C28_BuildTwiceSameText ==
    [][(op = "build" /\ op' = "build" /\ error = NoError /\ error' = NoError)
           => result' = result]_vars

\* C29: when add_custom_transforms fails (an unknown transform name, an
\* empty entry), the builder's lines and its seed are exactly what they
\* were before the call.
C29_FailedTransformsChangeNothing ==
    [][(op' = "add_custom_transforms" /\ error' # NoError)
           => (lines' = lines /\ seed_var' = seed_var)]_vars

\* add_custom_transforms failed on a list whose first step is known and
\* whose second is not, on a builder that holds bindings and a seed
C29_Witness ==
    /\ op = "add_custom_transforms" /\ error # NoError
    /\ Len(partition.custom_steps) = 2
    /\ Concat(partition.custom_steps[1]) \in TransformNames
    /\ Concat(partition.custom_steps[2]) \notin TransformNames
    /\ seed_var # NoneSeq /\ Len(lines) > 1


\* The table with the lineage and aggregation-hint fields of its columns
\* (sourceColumn, isNameInferred, summarizeBy) left out
WithoutInferred(t) ==
    [t EXCEPT !.columns = [k \in 1..Len(t.columns) |->
                              [t.columns[k] EXCEPT !.sourceColumn = NoneSeq, !.isNameInferred = FALSE,
                                                   !.summarizeBy = ""]]]

\* C22 as stated: compile_project changes no field of the validated model
\* except sourceColumn, isNameInferred and summarizeBy of the columns of
\* calculated tables.
C22_AsStated ==
    \A i \in 1..Len(compilation.tables) :
        IF compilation.validated[i].kind = "calculatedTable"
        THEN WithoutInferred(compilation.tables[i]) = WithoutInferred(compilation.validated[i])
        ELSE compilation.tables[i] = compilation.validated[i]

\* C22: compile_project changes no field of the validated model (the
\* sources, the tables in their order, their partitions and definitions)
\* except: the expression of the formula definition of a calculated table
\* that names a template, which becomes the template's body; sourceColumn,
\* isNameInferred and summarizeBy of the columns of calculated tables; and
\* sourceColumn and summarizeBy, where they were not set, of the columns of
\* regular tables.
C22_OnlyResolvedAndInferredFieldsChange ==
    LET Resolved(t, v) ==
            \/ t.calculatedTableDef = v.calculatedTableDef
            \/ /\ v.calculatedTableDef.template \in DOMAIN compilation.dax_templates
               /\ t.calculatedTableDef =
                      [v.calculatedTableDef EXCEPT
                          !.expression = compilation.dax_templates[v.calculatedTableDef.template]]
        Filled(c, d) ==
            /\ c = [d EXCEPT !.sourceColumn = c.sourceColumn, !.summarizeBy = c.summarizeBy]
            /\ d.sourceColumn # NoneSeq => c.sourceColumn = d.sourceColumn
            /\ d.summarizeBy # "" => c.summarizeBy = d.summarizeBy
        Kept(t, v) ==
            IF v.kind = "calculatedTable"
            THEN /\ WithoutInferred([t EXCEPT !.calculatedTableDef = v.calculatedTableDef])
                        = WithoutInferred(v)
                 /\ Resolved(t, v)
            ELSE IF v.kind = "table"
            THEN /\ [t EXCEPT !.columns = v.columns] = v
                 /\ Len(t.columns) = Len(v.columns)
                 /\ \A k \in 1..Len(v.columns) : Filled(t.columns[k], v.columns[k])
            ELSE t = v
    IN /\ Len(compilation.tables) = Len(compilation.validated)
       /\ compilation.sources = SfSales
       /\ \A i \in 1..Len(compilation.tables) :
              Kept(compilation.tables[i], compilation.validated[i])

\* compile_project has resolved the template of a calculated table and
\* inferred the properties of its columns
C22_Witness ==
    \E i \in 1..Len(compilation.tables) :
        /\ compilation.validated[i].kind = "calculatedTable"
        /\ compilation.tables[i].calculatedTableDef.expression
               # compilation.validated[i].calculatedTableDef.expression
        /\ compilation.tables[i].columns # compilation.validated[i].columns


\* C23: compile_project processes the tables in model order and stops at the
\* first failure: when processing table k raises, the error reaches the
\* caller, and the files on disk are the marker, the compatibility, model
\* and culture files and the files of the tables before k, in that order:
\* no file of table k or of a later table, no relationships file and no
\* project descriptor.
C23_StopsAtFirstFailure ==
    LET Failed == compilation.outcome \in {"ValueError", "TypeError"}
        Before(k) ==
            <<"definition.pbism", "database.tmdl", "model.tmdl", "cultures/en-US.tmdl">>
                \o [j \in 1..(k - 1) |-> "tables/" \o compilation.tables[j].name \o ".tmdl"]
    IN /\ compilation.error # NoError => Failed
       /\ Failed =>
              /\ compilation.pc = "done" /\ compilation.error # NoError
              /\ compilation.i <= Len(compilation.tables)
              /\ compilation.written = Before(compilation.i)
       /\ (compilation.outcome = "running" /\ compilation.pc # "start") =>
              compilation.written = Before(compilation.i)

\* Processing a table of a model with relationships and a stub report has
\* raised: the four files written before the loop are on disk
C23_Witness ==
    /\ compilation.outcome \in {"ValueError", "TypeError"}
    /\ Len(compilation.tables) = MaxTables
    /\ compilation.relationships /\ compilation.stub_report
    /\ Len(compilation.written) = 4

====
